---- MODULE Spec2Model ----
(***************************************************************************)
(* Model of the push-and-shove router's world: PNS::REVISION (the tree of  *)
(* add/remove deltas, pns_revision.cpp) and PNS::NODE (spatial index and   *)
(* joint map kept in step with the checked-out revision, pns_node.cpp).    *)
(*                                                                         *)
(* Pointers are small integers.  An ITEM* is an index into a fixed         *)
(* catalogue of items; a REVISION* is the number of the allocation that    *)
(* produced it, NULL is 0.  Memory of a freed REVISION keeps what the code *)
(* last wrote there; code that follows a pointer into it either finds that *)
(* stale content or faults (action UseAfterFree).                          *)
(***************************************************************************)
EXTENDS Integers, Sequences, FiniteSets, TLC

\* ------------------------------------------------------------------ bounds
MaxRevs == 4
NumItems == 4
\* NODE calls made in one run of Spec
MaxSteps == 7
\* NODE calls made in one run of any specification
MaxCalls == 9

NULL == 0
Revs == 1..MaxRevs
Items == 1..NumItems
Root == 1

\* --------------------------------------------------------- item catalogue
\* Kind(), Net(), Layers(), Pos() / Seg().A, Seg().B of the items a caller
\* may hand to the NODE.  Points are integers (equality is all the code uses).
ItemDesc(i) ==
    CASE i = 1 -> [kind |-> "SEGMENT", net |-> 1, lo |-> 0, hi |-> 0, a |-> 0, b |-> 1]
      [] i = 2 -> [kind |-> "SEGMENT", net |-> 1, lo |-> 1, hi |-> 1, a |-> 1, b |-> 2]
      [] i = 3 -> [kind |-> "VIA",     net |-> 1, lo |-> 0, hi |-> 1, a |-> 1, b |-> 1]
      [] i = 4 -> [kind |-> "SOLID",   net |-> 1, lo |-> 0, hi |-> 1, a |-> 1, b |-> 1]
      [] i = 5 -> [kind |-> "SEGMENT", net |-> 1, lo |-> 0, hi |-> 0, a |-> 1, b |-> 0]
      [] i = 6 -> [kind |-> "SEGMENT", net |-> 1, lo |-> 0, hi |-> 0, a |-> 1, b |-> 2]
      [] i = 7 -> [kind |-> "SEGMENT", net |-> 2, lo |-> 0, hi |-> 0, a |-> 2, b |-> 2]
      [] i = 8 -> [kind |-> "SEGMENT", net |-> 2, lo |-> 0, hi |-> 0, a |-> 1, b |-> 2]
      [] OTHER -> [kind |-> "SEGMENT", net |-> 1, lo |-> 1, hi |-> 1, a |-> 0, b |-> 0]

Kind(i) == ItemDesc(i).kind
Net(i) == ItemDesc(i).net
Anchors(i) ==
    IF Kind(i) = "SEGMENT" THEN {ItemDesc(i).a, ItemDesc(i).b} ELSE {ItemDesc(i).a}

\* ------------------------------------------------------- sequence helpers
SeqToSet(s) == {s[k] : k \in 1..Len(s)}
Contains(s, x) == \E k \in 1..Len(s) : s[k] = x
\* std::find / std::find_if followed by erase( it ): the first match goes
EraseFirst(s, x) ==
    LET k == CHOOSE k \in 1..Len(s) : s[k] = x /\ \A m \in 1..(k - 1) : s[m] # x
    IN  SubSeq(s, 1, k - 1) \o SubSeq(s, k + 1, Len(s))
Count(s, x) == Cardinality({k \in 1..Len(s) : s[k] = x})

\* ------------------------------------------------------------ layer ranges
LayersOverlap(lo1, hi1, lo2, hi2) == hi1 >= lo2 /\ lo1 <= hi2
Min(x, y) == IF x < y THEN x ELSE y
Max(x, y) == IF x > y THEN x ELSE y

\* ------------------------------------------------------------------ joints
\* A JOINT: tag (pos, net), layer range, link list, locked flag.
NewJoint(pos, lo, hi, net) ==
    [pos |-> pos, net |-> net, lo |-> lo, hi |-> hi, links |-> {}, locked |-> FALSE]

\* JOINT::Merge: layer range union and link list union
Merge(jt, other) ==
    IF ~(jt.pos = other.pos /\ jt.net = other.net
           /\ LayersOverlap(jt.lo, jt.hi, other.lo, other.hi))
    THEN jt
    ELSE [jt EXCEPT !.lo = Min(jt.lo, other.lo), !.hi = Max(jt.hi, other.hi),
                    !.links = jt.links \cup other.links]

\* touchJoint without its do/while: one overlapping joint is merged, the
\* others stay in the map
touchLoop_once(joints, jt, lo, hi) ==
    LET hit == {f \in joints : f.pos = jt.pos /\ f.net = jt.net
                                 /\ LayersOverlap(lo, hi, f.lo, f.hi)}
    IN  IF hit = {} THEN [joints |-> joints, jt |-> jt]
        ELSE LET f == CHOOSE f \in hit : TRUE
             IN  [joints |-> joints \ {f}, jt |-> Merge(jt, f)]

\* NODE::touchJoint: the do/while loop takes one joint of the tag's range that
\* overlaps aLayers, merges it into jt and erases it, until none is left;
\* then jt is inserted.  Yields the new map and the inserted joint.
RECURSIVE touchLoop(_, _, _, _)
touchLoop(joints, jt, lo, hi) ==
    LET range == {f \in joints : f.pos = jt.pos /\ f.net = jt.net}
        hit == {f \in range : LayersOverlap(lo, hi, f.lo, f.hi)}
    IN  IF hit = {} THEN [joints |-> joints, jt |-> jt]
        ELSE LET f == CHOOSE f \in hit : TRUE
             IN  touchLoop(joints \ {f}, Merge(jt, f), lo, hi)

touchJoint(joints, pos, lo, hi, net) ==
    LET r == touchLoop(joints, NewJoint(pos, lo, hi, net), lo, hi)
    IN  [joints |-> r.joints \cup {r.jt}, jt |-> r.jt]

\* NODE::linkJoint / NODE::unlinkJoint: touch, then Link / Unlink the item
linkJoint(joints, pos, lo, hi, net, item) ==
    LET t == touchJoint(joints, pos, lo, hi, net)
    IN  (t.joints \ {t.jt}) \cup {[t.jt EXCEPT !.links = @ \cup {item}]}

\* unlinkJoint that touches the joint and forgets to Unlink
unlinkJoint_keepsLink(joints, pos, lo, hi, net, item) ==
    touchJoint(joints, pos, lo, hi, net).joints

unlinkJoint(joints, pos, lo, hi, net, item) ==
    LET t == touchJoint(joints, pos, lo, hi, net)
    IN  (t.joints \ {t.jt}) \cup {[t.jt EXCEPT !.links = @ \ {item}]}

\* The hash table's iteration order is not fixed by the code.  What follows
\* the joints of one tag in that order is summed up by the tag of the joints
\* that come next, NoTag when the table ends there.
NoTag == [pos |-> -1, net |-> -1]

\* NODE::FindJoint( aPos, aLayer, aNet ): NULL (NoJoint) when the map has no
\* joint of the tag.  Otherwise the loop starts at the first joint of the tag
\* and runs to m_joints.end(), not to the end of the tag's range: it yields
\* the first joint whose layers contain aLayer, one of the tag if there is
\* one, else one of the joints that follow in the table.
NoJoint == [pos |-> -1, net |-> -1, lo |-> -1, hi |-> -1, links |-> {}, locked |-> FALSE]
FindJoint(joints, pos, layer, net, scan) ==
    LET range == {f \in joints : f.pos = pos /\ f.net = net}
        found == {f \in range : LayersOverlap(f.lo, f.hi, layer, layer)}
        beyond == {f \in joints \ range : f.pos = scan.pos /\ f.net = scan.net
                                            /\ LayersOverlap(f.lo, f.hi, layer, layer)}
    IN  IF range = {} THEN NoJoint
        ELSE IF found # {} THEN CHOOSE f \in found : TRUE
        ELSE IF beyond # {} THEN CHOOSE f \in beyond : TRUE
        ELSE NoJoint

\* ------------------------------------------------- index and joint updates
\* w = [index, joints, fault, scan]: m_index, m_joints, whether a null JOINT*
\* was dereferenced on the way, and the table order FindJoint meets.
addSolidIndex(w, it) ==
    LET d == ItemDesc(it)
    IN  [w EXCEPT !.joints = linkJoint(@, d.a, d.lo, d.hi, d.net, it),
                  !.index = @ \cup {it}]

addViaIndex(w, it) ==
    LET d == ItemDesc(it)
    IN  [w EXCEPT !.joints = linkJoint(@, d.a, d.lo, d.hi, d.net, it),
                  !.index = @ \cup {it}]

addSegmentIndex(w, it) ==
    LET d == ItemDesc(it)
        j1 == linkJoint(w.joints, d.a, d.lo, d.hi, d.net, it)
        j2 == linkJoint(j1, d.b, d.lo, d.hi, d.net, it)
    IN  [w EXCEPT !.joints = j2, !.index = @ \cup {it}]

addItemIndex(w, it) ==
    CASE Kind(it) = "SOLID" -> addSolidIndex(w, it)
      [] Kind(it) = "SEGMENT" -> addSegmentIndex(w, it)
      [] Kind(it) = "VIA" -> addViaIndex(w, it)

removeSegmentIndex(w, it) ==
    LET d == ItemDesc(it)
        j1 == unlinkJoint(w.joints, d.a, d.lo, d.hi, d.net, it)
        j2 == unlinkJoint(j1, d.b, d.lo, d.hi, d.net, it)
    IN  [w EXCEPT !.joints = j2, !.index = @ \ {it}]

removeSolidIndex(w, it) ==
    LET d == ItemDesc(it)
    IN  [w EXCEPT !.joints = unlinkJoint(@, d.a, d.lo, d.hi, d.net, it),
                  !.index = @ \ {it}]

\* the re-link loop of removeViaIndex over the captured link list
RECURSIVE relinkAll(_, _, _, _)
relinkAll(joints, links, p, net) ==
    IF links = {} THEN joints
    ELSE LET item == CHOOSE x \in links : TRUE
         IN  relinkAll(linkJoint(joints, p, ItemDesc(item).lo, ItemDesc(item).hi, net, item),
                       links \ {item}, p, net)

\* removeViaIndex that only unlinks the via, as removeSolidIndex does
removeViaIndex_unlinkOnly(w, it) ==
    LET d == ItemDesc(it)
    IN  [w EXCEPT !.joints = unlinkJoint(@, d.a, d.lo, d.hi, d.net, it),
                  !.index = @ \ {it}]

\* NODE::removeViaIndex: capture the links of the joint at the via's start
\* layer, erase every joint of the tag that overlaps the via's layers,
\* re-link the captured items other than the via under their own layers.
removeViaIndex(w, it) ==
    LET d == ItemDesc(it)
        jt == FindJoint(w.joints, d.a, d.lo, d.net, w.scan)
        links == jt.links
        kept == {f \in w.joints : ~(f.pos = d.a /\ f.net = d.net
                                      /\ LayersOverlap(d.lo, d.hi, f.lo, f.hi))}
    IN  IF jt = NoJoint THEN [w EXCEPT !.fault = TRUE]
        ELSE [w EXCEPT !.joints = relinkAll(kept, links \ {it}, d.a, d.net),
                       !.index = @ \ {it}]

removeItemIndex(w, it) ==
    CASE Kind(it) = "SOLID" -> removeSolidIndex(w, it)
      [] Kind(it) = "SEGMENT" -> removeSegmentIndex(w, it)
      [] Kind(it) = "VIA" -> removeViaIndex(w, it)

RECURSIVE addAll(_, _)
addAll(w, s) == IF s = <<>> THEN w ELSE addAll(addItemIndex(w, Head(s)), Tail(s))
RECURSIVE removeAll(_, _)
removeAll(w, s) == IF s = <<>> THEN w ELSE removeAll(removeItemIndex(w, Head(s)), Tail(s))

\* ---------------------------------------------------------------- REVISION
\* R maps a REVISION* to the object's members.
EmptyRev == [parent |-> NULL, branches |-> <<>>, added |-> <<>>, removed |-> <<>>]

AddItem(R, r, it) == [R EXCEPT ![r].added = Append(@, it)]

\* RemoveItem that always shadows, also an item added in the same revision
RemoveItem_noCancel(R, r, it) == [R EXCEPT ![r].removed = Append(@, it)]

RemoveItem(R, r, it) ==
    IF Contains(R[r].added, it)
    THEN [R EXCEPT ![r].added = EraseFirst(@, it)]
    ELSE [R EXCEPT ![r].removed = Append(@, it)]

RECURSIVE removeItems(_, _, _)
removeItems(R, r, s) ==
    IF s = <<>> THEN R ELSE removeItems(RemoveItem(R, r, Head(s)), r, Tail(s))
RECURSIVE addItems(_, _, _)
addItems(R, r, s) ==
    IF s = <<>> THEN R ELSE addItems(AddItem(R, r, Head(s)), r, Tail(s))

\* REVISION::Absorb, called on r with aDiff = d
Absorb(R, r, d) ==
    LET R1 == removeItems(R, r, R[d].removed)
        R2 == [R1 EXCEPT ![d].removed = <<>>]
        R3 == addItems(R2, r, R2[d].added)
    IN  [R3 EXCEPT ![d].added = <<>>]

\* the revisions owned, through m_branches, by r and its descendants
RECURSIVE Subtree(_, _)
Subtree(R, r) ==
    {r} \cup UNION {Subtree(R, R[r].branches[k]) : k \in 1..Len(R[r].branches)}

\* ~REVISION of every revision in S: nothing else points at their memory
Destroy(R, S) == [x \in DOMAIN R |-> IF x \in S THEN EmptyRev ELSE R[x]]

\* REVISION::ReleaseBranch, called on r; the caller gets the owning pointer
ReleaseBranch(R, r, b) ==
    IF Contains(R[r].branches, b)
    THEN [R EXCEPT ![r].branches = EraseFirst(@, b), ![b].parent = NULL]
    ELSE R

\* RemoveBranch that leaves the branch in place
RemoveBranch_keeps(R, r, b) == R

\* REVISION::RemoveBranch: the released branch is dropped with its subtree
RemoveBranch(R, r, b) ==
    IF Contains(R[r].branches, b)
    THEN Destroy(ReleaseBranch(R, r, b), Subtree(R, b))
    ELSE R

\* ClearBranches that clears nothing
ClearBranches_none(R, r) == R

\* REVISION::ClearBranches, called on r
ClearBranches(R, r) ==
    LET gone == UNION {Subtree(R, R[r].branches[k]) : k \in 1..Len(R[r].branches)}
    IN  [Destroy(R, gone) EXCEPT ![r].branches = <<>>]

\* REVISION::Squash, called on r: the parent absorbs r, releases it, clears
\* its other branches and takes over r's branches; r is deleted on return.
\* The m_parent of the branches taken over is not written.
Squash(R, r) ==
    LET parent == R[r].parent
        R1 == Absorb(R, parent, r)
        R2 == ReleaseBranch(R1, parent, r)
        R3 == ClearBranches(R2, parent)
        R4 == [R3 EXCEPT ![parent].branches = @ \o R3[r].branches]
    IN  [R4 EXCEPT ![r].branches = <<>>]

\* REVISION::Branch, called on r; c is the address of the new REVISION
Branch(R, r, c) ==
    [R EXCEPT ![r].branches = Append(@, c), ![c] = [EmptyRev EXCEPT !.parent = r]]

\* REVISION::Depth
RECURSIVE Depth(_, _)
Depth(R, r) == IF R[r].parent = NULL THEN 0 ELSE 1 + Depth(R, R[r].parent)

\* PNS::Path( aFrom, aTo ): equalise the depths, then climb in lockstep.
\* revert and apply are m_revert and m_apply ("upwards"); found is what the
\* two assertions at the end test.
RECURSIVE pathClimb(_, _, _, _)
pathClimb(R, r, n, acc) ==
    IF n = 0 THEN [at |-> r, list |-> acc]
    ELSE pathClimb(R, R[r].parent, n - 1, Append(acc, r))

\* the lockstep climb that tests assert( aFrom == aTo ) alone
RECURSIVE pathLockstep_sameEnd(_, _, _, _, _)
pathLockstep_sameEnd(R, f, t, from, to) ==
    IF f # NULL /\ t # NULL /\ f # t
    THEN pathLockstep_sameEnd(R, R[f].parent, R[t].parent, Append(from, f), Append(to, t))
    ELSE [revert |-> from, apply |-> to, found |-> (f = t)]

RECURSIVE pathLockstep(_, _, _, _, _)
pathLockstep(R, f, t, from, to) ==
    IF f # NULL /\ t # NULL /\ f # t
    THEN pathLockstep(R, R[f].parent, R[t].parent, Append(from, f), Append(to, t))
    ELSE [revert |-> from, apply |-> to, found |-> (f = t /\ f # NULL)]

Path(R, aFrom, aTo) ==
    LET fromDepth == Depth(R, aFrom)
        toDepth == Depth(R, aTo)
        f == pathClimb(R, aFrom, IF fromDepth > toDepth THEN fromDepth - toDepth ELSE 0, <<>>)
        t == pathClimb(R, aTo, IF toDepth > fromDepth THEN toDepth - fromDepth ELSE 0, <<>>)
    IN  pathLockstep(R, f.at, t.at, f.list, t.list)

Reverse(s) == [k \in 1..Len(s) |-> s[Len(s) + 1 - k]]
\* REVISION_PATH::ApplySequence runs over m_apply from rbegin to rend
ApplySequence(path) == Reverse(path.apply)
RevertSequence(path) == path.revert

\* -------------------------------------------------------------------- NODE
\* NODE::applyRevision / NODE::revertRevision on w = [index, joints, fault]
applyRevision(w, rec) == addAll(removeAll(w, rec.removed), rec.added)
\* revertRevision that takes the added items out and puts nothing back
revertRevision_addedOnly(w, rec) == removeAll(w, rec.added)
revertRevision(w, rec) == addAll(removeAll(w, rec.added), rec.removed)

\* NODE::WalkPath: s = [w, cur, ok]; every reverted revision moves m_revision
\* to its Parent(), every applied one becomes m_revision.  ok turns FALSE
\* where assert( revision == m_revision ) or
\* assert( revision->Parent() == m_revision ) does not hold; m_revision->Parent()
\* on a null m_revision is a fault.
RECURSIVE walkRevert(_, _, _)
walkRevert(R, s, list) ==
    IF list = <<>> THEN s
    ELSE IF s.cur = NULL THEN [s EXCEPT !.w.fault = TRUE, !.ok = FALSE]
    ELSE walkRevert(R, [w |-> revertRevision(s.w, R[Head(list)]),
                        cur |-> R[s.cur].parent,
                        ok |-> s.ok /\ Head(list) = s.cur],
                    Tail(list))

RECURSIVE walkApply(_, _, _)
walkApply(R, s, list) ==
    IF list = <<>> \/ s.w.fault THEN s
    ELSE walkApply(R, [w |-> applyRevision(s.w, R[Head(list)]),
                       cur |-> Head(list),
                       ok |-> s.ok /\ R[Head(list)].parent = s.cur],
                   Tail(list))

WalkPath(R, s, path) ==
    walkApply(R, walkRevert(R, s, RevertSequence(path)), ApplySequence(path))

\* findRedundantSegment that compares the ends in one order only
findRedundantSegment_sameOrder(w, A, B, lo, net) ==
    LET jtStart == FindJoint(w.joints, A, lo, net, w.scan)
        same == {x \in jtStart.links :
                    /\ Kind(x) = "SEGMENT"
                    /\ ItemDesc(x).lo = lo
                    /\ A = ItemDesc(x).a /\ B = ItemDesc(x).b}
    IN  IF jtStart = NoJoint \/ same = {} THEN NULL ELSE CHOOSE x \in same : TRUE

\* NODE::findRedundantSegment( A, B, lr, aNet ): a SEGMENT linked from the
\* joint at A on lr.Start() with the same start layer and the same ends in
\* either order; NULL when there is none
findRedundantSegment(w, A, B, lo, net) ==
    LET jtStart == FindJoint(w.joints, A, lo, net, w.scan)
        same == {x \in jtStart.links :
                    /\ Kind(x) = "SEGMENT"
                    /\ ItemDesc(x).lo = lo
                    /\ \/ (A = ItemDesc(x).a /\ B = ItemDesc(x).b)
                       \/ (A = ItemDesc(x).b /\ B = ItemDesc(x).a)}
    IN  IF jtStart = NoJoint \/ same = {} THEN NULL ELSE CHOOSE x \in same : TRUE

\* ------------------------------------------------------------------- state
VARIABLES
    rev,          \* REVISION* -> members of the REVISION at that address
    nextRev,      \* address the next new REVISION() returns
    m_revision,   \* NODE::m_revision
    m_index,      \* NODE::m_index, the set of indexed ITEM*
    m_joints,     \* NODE::m_joints
    pc,           \* "ok", or "crashed" once a fault ended the program
    lastOp,       \* the NODE call that produced this state
    mark,         \* the state at the last BranchMove and the calls made since
    steps,        \* number of NODE calls made
    changes       \* a client's CHANGE_SET: m_added_items, m_removed_items

vars == <<rev, nextRev, m_revision, m_index, m_joints, pc, lastOp, mark, steps, changes>>

World(scan) == [index |-> m_index, joints |-> m_joints, fault |-> FALSE, scan |-> scan]
State(scan) == [rev |-> rev, cur |-> m_revision, w |-> World(scan)]
\* the state a call leaves, without the table order it met
Settled(s) == [s EXCEPT !.w.scan = NoTag]
\* the table orders that matter to a call: FindJoint is reached from
\* removeViaIndex and from findRedundantSegment only
ScansFor(items, redundancyTest) ==
    IF redundancyTest \/ \E it \in items : Kind(it) = "VIA"
    THEN {NoTag} \cup {[pos |-> j.pos, net |-> j.net] : j \in m_joints}
                 \cup UNION {{[pos |-> p, net |-> Net(it)] : p \in Anchors(it)} : it \in items}
    ELSE {NoTag}

\* the revisions of the tree NODE was constructed on, and the freed ones
Tree == Subtree(rev, Root)
Freed == {r \in Revs : r < nextRev /\ r \notin Tree}
IsLeaf(r) == rev[r].branches = <<>>

RECURSIVE Chain(_, _)
Chain(R, r) == IF r = NULL THEN {} ELSE {r} \cup Chain(R, R[r].parent)

\* an ITEM* no container refers to: what a new SOLID / VIA / SEGMENT gets
Fresh(it) ==
    /\ it \notin m_index
    /\ \A r \in Revs : ~Contains(rev[r].added, it) /\ ~Contains(rev[r].removed, it)
    /\ \A j \in m_joints : it \notin j.links

NoMark == [phase |-> "none", by |-> "", x |-> 0, index |-> {}, joints |-> {},
           cur |-> NULL, rec |-> EmptyRev, addedNew |-> FALSE, removedOld |-> FALSE]
\* lastOp: the call, and for Squash what it cancelled, took over and dropped
\* for Add / Replace the item handed in (x) and whether it was dropped, for
\* Add the redundant segment found and for Replace the item taken out (old),
\* for Checkout the target (x), the revision it started from (old) and whether
\* an assertion did not hold; flag, links, owner, corners, origin, jt: the
\* arguments and results of Add( LINE ), AssembleLine and FindJoint
NoNote == [cancelled |-> {}, kids |-> 0, sibs |-> 0, x |-> 0, old |-> 0, dropped |-> FALSE,
           tripped |-> FALSE, flag |-> FALSE, links |-> <<>>, owner |-> NULL,
           corners |-> <<>>, origin |-> -1, jt |-> NoJoint,
           head |-> <<>>, args |-> <<>>, tab |-> <<>>, hit |-> <<>>]
Op(name, arg) == [op |-> name, note |-> NoNote]
SquashNote(R, r) ==
    LET p == R[r].parent
    IN  [NoNote EXCEPT !.cancelled = SeqToSet(R[p].added) \cap SeqToSet(R[r].removed),
                       !.kids = Len(R[r].branches),
                       !.sibs = Cardinality(SeqToSet(R[p].branches) \ {r})]

\* a call returned with state s; a null JOINT* dereference ends the program
Commit(s, op, mk) ==
    IF s.w.fault
    THEN /\ pc' = "crashed"
         /\ lastOp' = op
         /\ UNCHANGED <<rev, nextRev, m_revision, m_index, m_joints, mark, steps, changes>>
    ELSE /\ rev' = s.rev
         /\ m_revision' = s.cur
         /\ m_index' = s.w.index
         /\ m_joints' = s.w.joints
         /\ lastOp' = op
         /\ mark' = mk
         /\ steps' = steps + 1
         /\ UNCHANGED <<nextRev, pc, changes>>

\* ------------------------------------------------------------ NODE calls
\* NODE::Add( unique_ptr<ITEM>, aAllowRedundant ) and the overloads it
\* dispatches to; a dropped SEGMENT leaves everything as it was
\* Add( SEGMENT ) without the test for equal end coordinates
Dropped_redundantOnly(s, it, allowRedundant) ==
    LET d == ItemDesc(it)
    IN  /\ Kind(it) = "SEGMENT"
        /\ ~allowRedundant
        /\ findRedundantSegment(s.w, d.a, d.b, d.lo, d.net) # NULL

Dropped(s, it, allowRedundant) ==
    LET d == ItemDesc(it)
    IN  /\ Kind(it) = "SEGMENT"
        /\ \/ d.a = d.b
           \/ /\ ~allowRedundant
              /\ findRedundantSegment(s.w, d.a, d.b, d.lo, d.net) # NULL

\* an Add that tells the revision nothing
doAdd_indexOnly(s, it, allowRedundant) ==
    IF Dropped(s, it, allowRedundant) THEN s ELSE [s EXCEPT !.w = addItemIndex(@, it)]

doAdd(s, it, allowRedundant) ==
    IF Dropped(s, it, allowRedundant) THEN s
    ELSE [s EXCEPT !.w = addItemIndex(@, it), !.rev = AddItem(@, s.cur, it)]

\* x and y are SEGMENTs with the same ends in either order, the same start
\* layer and the same net
SameSegment(x, y) ==
    /\ Kind(x) = "SEGMENT" /\ Kind(y) = "SEGMENT"
    /\ {ItemDesc(x).a, ItemDesc(x).b} = {ItemDesc(y).a, ItemDesc(y).b}
    /\ ItemDesc(x).lo = ItemDesc(y).lo /\ Net(x) = Net(y)
Twins(x, index) == {y \in index : SameSegment(x, y)}
\* the call before this one was an Add without allowRedundant that dropped a
\* segment redundant to the indexed segment it
AddDroppedFor(it) ==
    /\ lastOp.op = "Add" /\ lastOp.note.dropped /\ ~lastOp.note.flag
    /\ it \in Twins(lastOp.note.x, m_index)

\* NODE::Remove( ITEM* )
doRemove(s, it) ==
    [s EXCEPT !.w = removeItemIndex(@, it), !.rev = RemoveItem(@, s.cur, it)]

\* the call as the code runs it, whatever the current revision is
AddCall(it, allowRedundant) ==
    /\ pc = "ok"
    /\ steps < MaxCalls
    /\ \E r \in {[s |-> Settled(doAdd(State(o), it, allowRedundant)),
                   dropped |-> Dropped(State(o), it, allowRedundant),
                   rseg |-> IF Kind(it) = "SEGMENT" /\ ~allowRedundant
                            THEN findRedundantSegment(World(o), ItemDesc(it).a,
                                     ItemDesc(it).b, ItemDesc(it).lo, Net(it))
                            ELSE NULL] :
                      o \in ScansFor({}, Kind(it) = "SEGMENT" /\ ~allowRedundant)} :
         \* a new object: one that is dropped may look like an item in use
         /\ Fresh(it) \/ r.dropped
         /\ Commit(r.s,
              [op |-> "Add", note |-> [NoNote EXCEPT !.x = it, !.flag = allowRedundant,
                                          !.dropped = r.dropped, !.old = r.rseg]],
              IF mark.by # "" \/ mark.phase = "none" THEN NoMark
              ELSE IF mark.phase = "BM" /\ ~r.dropped
                   THEN [mark EXCEPT !.phase = "A", !.x = it, !.addedNew = TRUE]
                   ELSE [mark EXCEPT !.phase = "mut", !.x = 0,
                                     !.addedNew = @ \/ ~r.dropped])

\* the orders in which the index may hand the items of S to a visitor
RECURSIVE Orders(_)
Orders(S) ==
    IF S = {} THEN {<<>>}
    ELSE UNION {{<<x>> \o t : t \in Orders(S \ {x})} : x \in S}

\* ITEM::Marker() of the items of the catalogue, as the caller marked them
Marker(i) == i % 4
\* a & b for markers of two bits
BitAnd(a, b) == (a % 2) * (b % 2) + 2 * (((a \div 2) % 2) * ((b \div 2) % 2))

\* FindByMarker that looks for the marker itself
FindByMarker_equal(index, aMarker) == {it \in index : Marker(it) = aMarker}

\* NODE::FindByMarker( aMarker, aItems ): the items it adds to aItems
FindByMarker(index, aMarker) == {it \in index : BitAnd(Marker(it), aMarker) # 0}

\* NODE::RemoveByMarker( aMarker ): the marked items are collected, as
\* FindByMarker finds them, and then removed one by one
RECURSIVE removeEach(_, _)
removeEach(s, garbage) ==
    IF garbage = <<>> THEN s ELSE removeEach(doRemove(s, Head(garbage)), Tail(garbage))

RemoveByMarker(aMarker) ==
    /\ pc = "ok"
    /\ steps < MaxCalls
    /\ \E garbage \in Orders(FindByMarker(m_index, aMarker)) :
       \E s \in {Settled(removeEach(State(o), garbage)) :
                    o \in ScansFor(SeqToSet(garbage), FALSE)} :
         Commit(s,
                [op |-> "RemoveByMarker",
                 note |-> [NoNote EXCEPT !.x = aMarker, !.links = garbage,
                              !.cancelled = {it \in SeqToSet(garbage) :
                                                Contains(rev[m_revision].added, it)}]],
                NoMark)

\* callers mutate the checked-out revision only while it is a leaf
Add(it, allowRedundant) == IsLeaf(m_revision) /\ AddCall(it, allowRedundant)

RemoveCall(it) ==
    /\ pc = "ok"
    /\ steps < MaxCalls
    /\ it \in m_index
    /\ \E s \in {Settled(doRemove(State(o), it)) : o \in ScansFor({it}, FALSE)} :
         Commit(s,
              [op |-> "Remove",
               note |-> [NoNote EXCEPT !.x = it,
                            !.old = IF AddDroppedFor(it) THEN lastOp.note.x ELSE 0,
                            !.flag = AddDroppedFor(it) /\ Twins(it, m_index) = {it}]],
              IF mark.by # "" \/ mark.phase = "none" THEN NoMark
              ELSE IF mark.phase = "A" /\ mark.x = it
                   THEN [mark EXCEPT !.phase = "AR"]
                   ELSE [mark EXCEPT !.phase = "mut", !.x = 0,
                                     !.removedOld = @ \/ it \in mark.index])

Remove(it) == IsLeaf(m_revision) /\ RemoveCall(it)

\* NODE::Replace( ITEM*, unique_ptr<ITEM> ): Remove( aOldItem ); Add( aNewItem )
Replace(old, new) ==
    /\ pc = "ok"
    /\ steps < MaxCalls
    /\ IsLeaf(m_revision)
    /\ old \in m_index
    /\ Fresh(new)
    /\ \E s \in {Settled(doAdd(doRemove(State(o), old), new, FALSE)) :
                      o \in ScansFor({old}, Kind(new) = "SEGMENT")} :
         Commit(s,
                [op |-> "Replace", note |-> [NoNote EXCEPT !.x = new, !.old = old]], NoMark)

\* NODE::BranchMove
BranchMove ==
    /\ pc = "ok"
    /\ steps < MaxCalls
    /\ nextRev <= MaxRevs
    /\ rev' = Branch(rev, m_revision, nextRev)
    /\ m_revision' = nextRev
    /\ nextRev' = nextRev + 1
    /\ lastOp' = Op("BranchMove", m_revision)
    /\ mark' = [NoMark EXCEPT !.phase = "BM", !.index = m_index, !.joints = m_joints,
                               !.cur = m_revision, !.rec = rev[m_revision]]
    /\ steps' = steps + 1
    /\ UNCHANGED <<m_index, m_joints, pc, changes>>

\* NODE::Squash; REVISION::Squash asserts m_parent
NodeSquash ==
    /\ pc = "ok"
    /\ steps < MaxCalls
    /\ rev[m_revision].parent # NULL
    /\ Commit([State(NoTag) EXCEPT !.rev = Squash(rev, m_revision), !.cur = rev[m_revision].parent],
              [op |-> "Squash", note |-> SquashNote(rev, m_revision)],
              IF mark.by = "" /\ mark.phase = "AR" THEN [mark EXCEPT !.by = "Squash"]
              ELSE NoMark)

\* NODE::Revert: revertRevision( m_revision ), then REVISION::Revert
NodeRevert ==
    /\ pc = "ok"
    /\ steps < MaxCalls
    /\ rev[m_revision].parent # NULL
    /\ \E w \in {revertRevision(World(o), rev[m_revision]) :
                      o \in ScansFor(SeqToSet(rev[m_revision].added)
                                        \cup SeqToSet(rev[m_revision].removed), FALSE)} :
         Commit([rev |-> RemoveBranch(rev, rev[m_revision].parent, m_revision),
                 cur |-> rev[m_revision].parent,
                 w |-> [w EXCEPT !.scan = NoTag]],
                Op("Revert", m_revision),
                IF mark.by = "" /\ mark.phase # "none" THEN [mark EXCEPT !.by = "Revert"]
                ELSE NoMark)

\* the items in the deltas of the revisions of a path
PathItems(R, path) ==
    UNION {SeqToSet(R[r].added) \cup SeqToSet(R[r].removed) :
               r \in SeqToSet(path.revert) \cup SeqToSet(path.apply)}

\* NODE::CheckoutRevision( aRevision ) for a revision of the tree.  When an
\* assertion of Path or WalkPath does not hold, a build that has assertions
\* aborts; a build without them walks the path it got.
\* a checkout that records the deltas it replays in the revision it reaches
CheckoutRevision_recording(target) ==
    /\ pc = "ok"
    /\ steps < MaxCalls
    /\ target \in Tree
    /\ LET path == Path(rev, m_revision, target)
       IN
       \E s \in {[WalkPath(rev, [w |-> World(o), cur |-> m_revision, ok |-> TRUE], path)
                     EXCEPT !.w.scan = NoTag] : o \in ScansFor(PathItems(rev, path), FALSE)} :
       LET note == [NoNote EXCEPT !.x = target, !.old = m_revision,
                                  !.tripped = ~path.found \/ ~s.ok]
       IN  \/ /\ ~path.found \/ ~s.ok
              /\ pc' = "crashed"
              /\ lastOp' = [op |-> "Checkout", note |-> note]
              /\ UNCHANGED <<rev, nextRev, m_revision, m_index, m_joints, mark, steps, changes>>
           \/ Commit([rev |-> [rev EXCEPT ![target].removed = @ \o rev[m_revision].added],
                      cur |-> s.cur, w |-> s.w],
                     [op |-> "Checkout", note |-> note], NoMark)
CheckoutRevision(target) ==
    /\ pc = "ok"
    /\ steps < MaxCalls
    /\ target \in Tree
    /\ LET path == Path(rev, m_revision, target)
       IN
       \E s \in {[WalkPath(rev, [w |-> World(o), cur |-> m_revision, ok |-> TRUE], path)
                     EXCEPT !.w.scan = NoTag] : o \in ScansFor(PathItems(rev, path), FALSE)} :
       LET note == [NoNote EXCEPT !.x = target, !.old = m_revision,
                                  !.tripped = ~path.found \/ ~s.ok]
       IN  \/ /\ ~path.found \/ ~s.ok
              /\ pc' = "crashed"
              /\ lastOp' = [op |-> "Checkout", note |-> note]
              /\ UNCHANGED <<rev, nextRev, m_revision, m_index, m_joints, mark, steps, changes>>
           \/ Commit([rev |-> rev, cur |-> s.cur, w |-> s.w],
                     [op |-> "Checkout", note |-> note], NoMark)

\* NODE::CheckoutRevision( aRevision ) with a REVISION the caller constructed
\* itself, the root of a tree of its own (at address nextRev).  The build
\* with assertions ends in PNS::Path; the build without them walks the path.
CheckoutForeign ==
    /\ pc = "ok"
    /\ steps < MaxCalls
    /\ nextRev <= MaxRevs
    /\ LET path == Path(rev, m_revision, nextRev)
       IN
       \E s \in {[WalkPath(rev, [w |-> World(o), cur |-> m_revision, ok |-> TRUE], path)
                     EXCEPT !.w.scan = NoTag] : o \in ScansFor(PathItems(rev, path), FALSE)} :
       LET op == [op |-> "CheckoutForeign",
                  note |-> [NoNote EXCEPT !.x = nextRev, !.old = m_revision,
                                          !.tripped = ~path.found]]
       IN  \/ /\ ~path.found \/ s.w.fault
              /\ pc' = "crashed"
              /\ lastOp' = op
              /\ UNCHANGED <<rev, nextRev, m_revision, m_index, m_joints, mark, steps, changes>>
           \/ /\ ~s.w.fault
              /\ m_revision' = s.cur
              /\ m_index' = s.w.index
              /\ m_joints' = s.w.joints
              /\ nextRev' = nextRev + 1
              /\ lastOp' = op
              /\ mark' = NoMark
              /\ steps' = steps + 1
              /\ UNCHANGED <<rev, pc, changes>>

\* NODE::ClearBranches
NodeClearBranches ==
    /\ pc = "ok"
    /\ steps < MaxCalls
    /\ Commit([State(NoTag) EXCEPT !.rev = ClearBranches(rev, m_revision)],
              Op("ClearBranches", m_revision), NoMark)

\* NODE::LockJoint( aPos, aItem, aLock ) for an indexed item and one of its ends
LockJoint(pos, it, lock) ==
    /\ pc = "ok"
    /\ steps < MaxCalls
    /\ it \in m_index
    /\ pos \in Anchors(it)
    /\ LET t == touchJoint(m_joints, pos, ItemDesc(it).lo, ItemDesc(it).hi, Net(it))
       IN  Commit([State(NoTag) EXCEPT !.w.joints = (t.joints \ {t.jt})
                                     \cup {[t.jt EXCEPT !.locked = lock]}],
                  Op("LockJoint", it), NoMark)

\* Reading through a pointer to a freed REVISION (the m_parent of a branch
\* taken over by Squash, or m_revision itself) may also end the program.
UseAfterFree ==
    /\ pc = "ok"
    /\ steps < MaxCalls
    /\ \E r \in Tree \cup {m_revision} : Chain(rev, r) \cap Freed # {}
    /\ pc' = "crashed"
    /\ lastOp' = Op("UseAfterFree", 0)
    /\ UNCHANGED <<rev, nextRev, m_revision, m_index, m_joints, mark, steps, changes>>

\* ------------------------------------------------------------------- lines
NumLineItems == 8
LineItems == 1..NumLineItems

\* the LINEs a caller hands to Add( LINE& ): the points of its line chain,
\* its layer and its net
NumLines == 5
Lines == 1..NumLines
LineDesc(k) ==
    CASE k = 1 -> [pts |-> <<0, 1, 2>>, lo |-> 0, net |-> 1]
      [] k = 2 -> [pts |-> <<1, 0>>, lo |-> 0, net |-> 1]
      [] k = 3 -> [pts |-> <<0, 0, 1>>, lo |-> 0, net |-> 1]
      [] k = 4 -> [pts |-> <<1, 1, 2>>, lo |-> 0, net |-> 1]
      [] OTHER -> [pts |-> <<2, 2>>, lo |-> 0, net |-> 1]

\* Fresh for a call under way
FreshIn(s, it) ==
    /\ it \notin s.w.index
    /\ \A r \in Revs : ~Contains(s.rev[r].added, it) /\ ~Contains(s.rev[r].removed, it)
    /\ \A j \in s.w.joints : it \notin j.links

\* new SEGMENT( aLine, s ): an unused SEGMENT from A to B with the line's
\* layer and net, NULL when the catalogue has none left
newSegment(s, A, B, lo, net) ==
    LET c == {it \in LineItems : /\ ItemDesc(it) = [kind |-> "SEGMENT", net |-> net,
                                                   lo |-> lo, hi |-> lo, a |-> A, b |-> B]
                                 /\ FreshIn(s, it)}
    IN  IF c = {} THEN NULL ELSE CHOOSE it \in c : TRUE

\* the loop of NODE::Add( LINE&, aAllowRedundant ) from segment i on;
\* links is aLine's list of linked segments
RECURSIVE addLineLoop(_, _, _, _, _)
addLineLoop(s, line, i, links, allowRedundant) ==
    IF i >= Len(line.pts) THEN [s |-> s, links |-> links, ok |-> TRUE]
    ELSE LET A == line.pts[i]
             B == line.pts[i + 1]
             rseg == IF allowRedundant THEN NULL
                     ELSE findRedundantSegment(s.w, A, B, line.lo, line.net)
             newseg == newSegment(s, A, B, line.lo, line.net)
         IN  IF A = B THEN addLineLoop(s, line, i + 1, links, allowRedundant)
             ELSE IF rseg # NULL
             THEN addLineLoop(s, line, i + 1, Append(links, rseg), allowRedundant)
             ELSE IF newseg = NULL THEN [s |-> s, links |-> links, ok |-> FALSE]
             ELSE addLineLoop(doAdd(s, newseg, TRUE), line, i + 1,
                              Append(links, newseg), allowRedundant)

\* NODE::Add( LINE&, aAllowRedundant ) of a LINE without linked segments
AddLine(k, allowRedundant) ==
    /\ pc = "ok"
    /\ steps < MaxCalls
    /\ IsLeaf(m_revision)
    /\ \E r \in {[addLineLoop(State(o), LineDesc(k), 1, <<>>, allowRedundant)
                     EXCEPT !.s.w.scan = NoTag] :
                      o \in ScansFor({}, ~allowRedundant)
                              \cup {[pos |-> q, net |-> LineDesc(k).net] :
                                       q \in IF allowRedundant THEN {}
                                             ELSE SeqToSet(LineDesc(k).pts)}} :
             /\ r.ok
             /\ Commit(r.s, [op |-> "AddLine",
                             note |-> [NoNote EXCEPT !.x = k, !.flag = allowRedundant,
                                          !.links = r.links, !.owner = m_revision]],
                       NoMark)

\* NODE::FindJoint( aPos, aLayer, aNet ) called by a client
FindJointCall(pos, layer, net) ==
    /\ pc = "ok"
    /\ steps < MaxCalls
    /\ \E jt \in {FindJoint(m_joints, pos, layer, net, o) : o \in ScansFor({}, TRUE)} :
         lastOp' = [op |-> "FindJoint",
                    note |-> [NoNote EXCEPT !.x = pos, !.old = layer, !.owner = net,
                                            !.jt = jt]]
    /\ mark' = NoMark
    /\ steps' = steps + 1
    /\ UNCHANGED <<rev, nextRev, m_revision, m_index, m_joints, pc, changes>>

\* JOINT::IsLineCorner and JOINT::NextSegment
IsLineCorner(jt) ==
    Cardinality(jt.links) = 2 /\ \A x \in jt.links : Kind(x) = "SEGMENT"
NextSegment(jt, aCurrent) ==
    IF aCurrent \in jt.links THEN CHOOSE x \in jt.links \ {aCurrent} : TRUE
    ELSE CHOOSE x \in jt.links : TRUE

\* size of the corners[] and segs[] arrays of AssembleLine, less one
MaxVerts == 16

\* NODE::followLine from iteration count on.  st = [pos, corners, segs,
\* guardHit, fault]: aPos, the two arrays, aGuardHit, and whether FindJoint
\* gave NULL or an array was written outside its bounds.
RECURSIVE followLoop(_, _, _, _, _, _, _, _)
followLoop(w, aCurrent, aScanDirection, guard, prevReversed, count, st, aStopAtLockedJoints) ==
    LET d == ItemDesc(aCurrent)
        p == IF aScanDirection # prevReversed THEN d.b ELSE d.a
        jt == FindJoint(w.joints, p, d.lo, d.net, w.scan)
        aPos == st.pos + (IF aScanDirection THEN 1 ELSE -1)
        st1 == [st EXCEPT !.corners[st.pos] = jt.pos, !.segs[st.pos] = aCurrent, !.pos = aPos]
        locked == aStopAtLockedJoints /\ jt.locked
        next == NextSegment(jt, aCurrent)
    IN  IF jt = NoJoint THEN [st EXCEPT !.fault = TRUE]
        ELSE IF count > 0 /\ guard = p
        THEN IF aPos \in DOMAIN st.segs
             THEN [st1 EXCEPT !.segs[aPos] = NULL, !.guardHit = TRUE]
             ELSE [st1 EXCEPT !.fault = TRUE]
        ELSE IF locked \/ ~IsLineCorner(jt) \/ aPos < 0 \/ aPos = MaxVerts THEN st1
        ELSE followLoop(w, next, aScanDirection, guard,
                        jt.pos = (IF aScanDirection THEN ItemDesc(next).b ELSE ItemDesc(next).a),
                        count + 1, st1, aStopAtLockedJoints)

\* a walk whose guard is the segment's second end in either direction
followLine_guardB(w, aCurrent, aScanDirection, st, aStopAtLockedJoints) ==
    followLoop(w, aCurrent, aScanDirection, ItemDesc(aCurrent).b, FALSE, 0, st,
               aStopAtLockedJoints)

\* a walk that does not look at the joints' locks
followLine_throughLocked(w, aCurrent, aScanDirection, st, aStopAtLockedJoints) ==
    followLoop(w, aCurrent, aScanDirection,
               IF aScanDirection THEN ItemDesc(aCurrent).b ELSE ItemDesc(aCurrent).a,
               FALSE, 0, st, FALSE)

followLine(w, aCurrent, aScanDirection, st, aStopAtLockedJoints) ==
    followLoop(w, aCurrent, aScanDirection,
               IF aScanDirection THEN ItemDesc(aCurrent).b ELSE ItemDesc(aCurrent).a,
               FALSE, 0, st, aStopAtLockedJoints)

\* the last loop of AssembleLine over corners[i], segs[i] for i up to i_end - 1;
\* pl = [corners, links, origin]: the line chain, the linked segments and
\* *aOriginSegmentIndex (-1 while not written)
\* the loop without the originSet test: every link of the seed writes the index
RECURSIVE assembleLoop_everyOrigin(_, _, _, _, _, _)
assembleLoop_everyOrigin(st, i, i_end, prev_seg, aSeg, pl) ==
    IF i >= i_end THEN pl
    ELSE LET linked == st.segs[i] # NULL /\ prev_seg # st.segs[i]
             pl1 == [pl EXCEPT !.corners = Append(@, st.corners[i]),
                               !.links = IF linked THEN Append(@, st.segs[i]) ELSE @,
                               !.origin = IF linked /\ st.segs[i] = aSeg
                                          THEN Len(pl.links) ELSE @]
         IN  assembleLoop_everyOrigin(st, i + 1, i_end, st.segs[i], aSeg, pl1)

RECURSIVE assembleLoop(_, _, _, _, _, _)
assembleLoop(st, i, i_end, prev_seg, aSeg, pl) ==
    IF i >= i_end THEN pl
    ELSE LET linked == st.segs[i] # NULL /\ prev_seg # st.segs[i]
             pl1 == [pl EXCEPT !.corners = Append(@, st.corners[i]),
                               !.links = IF linked THEN Append(@, st.segs[i]) ELSE @,
                               !.origin = IF linked /\ st.segs[i] = aSeg /\ pl.origin = -1
                                          THEN Len(pl.links) ELSE @]
         IN  assembleLoop(st, i + 1, i_end, st.segs[i], aSeg, pl1)

\* NODE::AssembleLine( aSeg, aOriginSegmentIndex, aStopAtLockedJoints ) for
\* an indexed segment; yields [pl, fault]
assembleLine(w, aSeg, aStopAtLockedJoints) ==
    LET st0 == [pos |-> MaxVerts \div 2,
                corners |-> [i \in 0..MaxVerts |-> -1],
                segs |-> [i \in 0..MaxVerts |-> NULL],
                guardHit |-> FALSE, fault |-> FALSE]
        back == followLine(w, aSeg, FALSE, st0, aStopAtLockedJoints)
        i_start == back.pos
        fwd == IF back.guardHit \/ back.fault THEN [back EXCEPT !.pos = MaxVerts \div 2 + 1]
               ELSE followLine(w, aSeg, TRUE, [back EXCEPT !.pos = MaxVerts \div 2 + 1],
                               aStopAtLockedJoints)
        i_end == fwd.pos
    IN  [pl |-> IF fwd.fault THEN [corners |-> <<>>, links |-> <<>>, origin |-> -1]
                ELSE assembleLoop(fwd, i_start + 1, i_end, NULL, aSeg,
                                  [corners |-> <<>>, links |-> <<>>, origin |-> -1]),
         fault |-> fwd.fault,
         walk |-> [guardHit |-> fwd.guardHit, forward |-> ~(back.guardHit \/ back.fault)]]

\* a client calls AssembleLine and asks for the origin index;
\* assert( pl.SegmentCount() != 0 ) ends the program when it does not hold
AssembleLine(aSeg, aStopAtLockedJoints) ==
    /\ pc = "ok"
    /\ steps < MaxCalls
    /\ aSeg \in m_index
    /\ Kind(aSeg) = "SEGMENT"
    /\ \E r \in {assembleLine(World(o), aSeg, aStopAtLockedJoints) : o \in ScansFor({}, TRUE)} :
             IF r.fault \/ Len(r.pl.corners) < 2
             THEN /\ pc' = "crashed"
                  /\ lastOp' = [op |-> "AssembleLine", note |-> [NoNote EXCEPT !.x = aSeg]]
                  /\ UNCHANGED steps
             ELSE /\ lastOp' = [op |-> "AssembleLine",
                                note |-> [NoNote EXCEPT !.x = aSeg, !.flag = aStopAtLockedJoints,
                                             !.corners = r.pl.corners, !.links = r.pl.links,
                                             !.origin = r.pl.origin, !.owner = m_revision,
                                             !.args = r.walk]]
                  /\ steps' = steps + 1
                  /\ UNCHANGED pc
    /\ mark' = NoMark
    /\ UNCHANGED <<rev, nextRev, m_revision, m_index, m_joints, changes>>

\* the calls on a NODE whose clients work with lines and joints
LineNext ==
    \/ \E it \in LineItems, ar \in BOOLEAN : Add(it, ar)
    \/ \E it \in LineItems : Remove(it)
    \/ \E k \in Lines, ar \in BOOLEAN : AddLine(k, ar)
    \/ \E it \in LineItems : \E p \in Anchors(it), l \in BOOLEAN : LockJoint(p, it, l)
    \/ \E p \in 0..2, layer \in 0..1, net \in 1..2 : FindJointCall(p, layer, net)
    \/ \E it \in LineItems, stop \in BOOLEAN : AssembleLine(it, stop)
    \/ \E old \in LineItems, new \in LineItems : Replace(old, new)

Init ==
    /\ rev = [r \in Revs |-> EmptyRev]
    /\ nextRev = Root + 1
    /\ m_revision = Root
    /\ m_index = {}
    /\ m_joints = {}
    /\ pc = "ok"
    /\ lastOp = Op("NODE", 0)
    /\ mark = NoMark
    /\ steps = 0
    /\ changes = [added |-> <<>>, removed |-> <<>>]

Next ==
    \/ \E it \in Items, ar \in BOOLEAN : Add(it, ar)
    \/ \E it \in Items : Remove(it)
    \/ \E old \in Items, new \in Items : Replace(old, new)
    \/ BranchMove
    \/ NodeSquash
    \/ NodeRevert
    \/ \E t \in Revs : CheckoutRevision(t)
    \/ NodeClearBranches
    \/ \E it \in Items : \E p \in Anchors(it), l \in BOOLEAN : LockJoint(p, it, l)
    \/ UseAfterFree

Spec == Init /\ [][steps < MaxSteps /\ Next]_vars

\* runs of at most MaxLineSteps calls on lines and joints
MaxLineSteps == 4
SpecLines == Init /\ [][steps < MaxLineSteps /\ LineNext]_vars

\* callers that do not keep to leaf revisions: Add and Remove as the code has
\* them, which test nothing about the current revision's branches
MaxCallerSteps == 5
CallerNext ==
    \/ \E it \in Items, ar \in BOOLEAN : AddCall(it, ar)
    \/ \E it \in Items : RemoveCall(it)
    \/ BranchMove
    \/ NodeRevert
    \/ \E t \in Revs : CheckoutRevision(t)
    \/ CheckoutForeign
    \/ \E m \in 1..3 : RemoveByMarker(m)
SpecCallers == Init /\ [][steps < MaxCallerSteps /\ CallerNext]_vars

\* ------------------------------------------------------------------ claims
\* the revision whose m_branches holds r, NULL for a root
Owner(r) ==
    IF \E p \in Revs : Contains(rev[p].branches, r)
    THEN CHOOSE p \in Revs : Contains(rev[p].branches, r)
    ELSE NULL

\* r, the revision that holds r as a branch, and so on up to the root
RECURSIVE PathToRoot(_)
PathToRoot(r) == IF r = NULL THEN <<>> ELSE <<r>> \o PathToRoot(Owner(r))

\* owned by a revision on the way to the root and not shadowed from there down
Visible(it, r) ==
    LET p == PathToRoot(r)
    IN  \E k \in 1..Len(p) :
            /\ Contains(rev[p[k]].added, it)
            /\ \A m \in 1..k : ~Contains(rev[p[m]].removed, it)

\* C1: after every completed NODE call an item is in the spatial index if and
\* only if a revision on the path from the current revision to the root has it
\* in its added items and no revision from that one down to the current one
\* has it in its removed items.
C1_IndexRevisionParity ==
    pc = "ok" => \A it \in Items : (it \in m_index <=> Visible(it, m_revision))

\* the index and joint map of a NODE built from nothing by applying the
\* revisions from the root down to r, parent first
RECURSIVE applyDown(_, _)
applyDown(w, list) ==
    IF list = <<>> THEN w ELSE applyDown(applyRevision(w, rev[Head(list)]), Tail(list))
BuiltFresh(r) ==
    applyDown([index |-> {}, joints |-> {}, fault |-> FALSE, scan |-> NoTag],
              Reverse(PathToRoot(r)))
\* joint tags, layer ranges and link sets of a joint map
JointView(joints) ==
    {[pos |-> j.pos, net |-> j.net, lo |-> j.lo, hi |-> j.hi, links |-> j.links] : j \in joints}

\* C2: after CheckoutRevision( T ) the spatial index and the joint map (tags,
\* layer ranges, link sets) are those of a NODE built fresh from the deltas of
\* the revisions on the path root -> T.
C2_PathRoundTrip ==
    (pc = "ok" /\ lastOp.op = "Checkout") =>
        /\ m_index = BuiltFresh(m_revision).index
        /\ JointView(m_joints) = JointView(BuiltFresh(m_revision).joints)

\* C3: two distinct joints of the joint map with the same (position, net) tag
\* have layer ranges that do not overlap.
C3_JointDisjointness ==
    \A j1 \in m_joints, j2 \in m_joints :
        (j1 # j2 /\ j1.pos = j2.pos /\ j1.net = j2.net)
            => ~LayersOverlap(j1.lo, j1.hi, j2.lo, j2.hi)

\* two joints share a tag on different layers, one of them produced by a merge
C3_Witness ==
    \E j1 \in m_joints, j2 \in m_joints :
        /\ j1 # j2 /\ j1.pos = j2.pos /\ j1.net = j2.net
        /\ j1.links # {} /\ j2.links # {}

\* C4: an item is in the link list of joint J if and only if it is in the
\* spatial index, one of its anchors (A or B of a SEGMENT, Pos of a SOLID or
\* VIA) is J's position, its layers overlap J's and its net is J's.
C4_JointCompleteness ==
    pc = "ok" =>
        \A j \in m_joints, it \in Items :
            it \in j.links <=>
                /\ it \in m_index
                /\ j.pos \in Anchors(it)
                /\ LayersOverlap(ItemDesc(it).lo, ItemDesc(it).hi, j.lo, j.hi)
                /\ Net(it) = j.net

\* items the index, a joint or a revision of the tree refers to
Live ==
    m_index \cup UNION {j.links : j \in m_joints}
            \cup UNION {SeqToSet(rev[r].added) \cup SeqToSet(rev[r].removed) : r \in Tree}

\* C5: every live item is in the added items of exactly one revision of the
\* tree, and is there once.
C5_OwnershipUniqueness ==
    pc = "ok" =>
        \A it \in Live :
            /\ Cardinality({r \in Tree : Contains(rev[r].added, it)}) = 1
            /\ \A r \in Tree : Count(rev[r].added, it) <= 1

\* a Squash call has just returned
SquashStep == lastOp'.op = "Squash" /\ steps' = steps + 1 /\ pc' = "ok"

\* C6: after a revision C is squashed into its parent P, P's added set is
\* (old P.added minus C.removed) union C.added and P's removed set is old
\* P.removed union (C.removed minus old P.added); an item added in P and
\* removed in C is in neither list and no revision owns it any more.
C6_SquashCancellation ==
    [][SquashStep =>
        LET c == m_revision
            p == rev[c].parent
            oldA == SeqToSet(rev[p].added)
            oldR == SeqToSet(rev[p].removed)
            cA == SeqToSet(rev[c].added)
            cR == SeqToSet(rev[c].removed)
        IN  /\ SeqToSet(rev'[p].added) = (oldA \ cR) \cup cA
            /\ SeqToSet(rev'[p].removed) = oldR \cup (cR \ oldA)
            /\ \A it \in oldA \cap cR :
                  /\ ~Contains(rev'[p].added, it)
                  /\ ~Contains(rev'[p].removed, it)
                  /\ \A r \in Revs : ~Contains(rev'[r].added, it)]_vars

\* a Squash cancelled an addition of the parent against a removal of the child
C6_Witness ==
    pc = "ok" /\ lastOp.op = "Squash" /\ lastOp.note.cancelled # {}
       /\ rev[m_revision].added # <<>>

\* C7: BranchMove followed at once by Revert leaves the spatial index, the
\* joint map, the current revision and that revision's branch list as they
\* were before BranchMove.
C7_BranchMoveRevertIdentity ==
    (pc = "ok" /\ mark.phase = "BM" /\ mark.by = "Revert") =>
        /\ m_index = mark.index
        /\ m_joints = mark.joints
        /\ m_revision = mark.cur
        /\ rev[m_revision].branches = mark.rec.branches

\* BranchMove and Revert were called on a revision that holds items and has
\* another branch
C7_Witness ==
    /\ pc = "ok" /\ mark.phase = "BM" /\ mark.by = "Revert"
    /\ m_index # {} /\ rev[m_revision].branches # <<>>

\* C8: BranchMove; Add( X ); Remove( X ); Squash leaves the current revision
\* the original one with its added and removed lists unchanged, and the
\* spatial index and the joint map as they were before BranchMove.
C8_AddRemoveSquashIsNoOp ==
    (pc = "ok" /\ mark.phase = "AR" /\ mark.by = "Squash") =>
        /\ m_revision = mark.cur
        /\ rev[m_revision].added = mark.rec.added
        /\ rev[m_revision].removed = mark.rec.removed
        /\ m_index = mark.index
        /\ m_joints = mark.joints

\* C9: after BranchMove, any Add and Remove calls in the new branch, and
\* Revert, the spatial index holds exactly the items it held before
\* BranchMove and every joint links only indexed items.
C9_BranchRevertParity ==
    (pc = "ok" /\ mark.phase # "none" /\ mark.by = "Revert") =>
        /\ m_index = mark.index
        /\ \A j \in m_joints : j.links \subseteq m_index

\* a branch that added an item and removed an older one was reverted
C9_Witness ==
    /\ pc = "ok" /\ mark.by = "Revert"
    /\ mark.addedNew /\ mark.removedOld
    /\ m_index # {}

C4_Witness ==
    /\ pc = "ok" /\ lastOp.op = "Remove"
    /\ \E j \in m_joints : Cardinality(j.links) >= 2

\* a call named op has just returned or has ended the program
Called(op) == lastOp'.op = op /\ (steps' = steps + 1 \/ pc' # pc)
\* the segments of a line chain that are not zero-length
NonDegenerate(pts) == {i \in 1..(Len(pts) - 1) : pts[i] # pts[i + 1]}

\* C11: Add of a SEGMENT whose endpoints A and B are equal reports no error
\* and leaves the current revision's added and removed lists, the spatial
\* index and the joint map unchanged; Add( LINE ) skips each zero-length
\* segment of the line: it links one segment per segment that is not
\* zero-length, indexes no zero-length segment, and changes nothing when
\* every segment of the line is zero-length.
C11_DegenerateSegmentIgnored ==
    [][/\ (Called("Add") /\ Kind(lastOp'.note.x) = "SEGMENT"
                         /\ ItemDesc(lastOp'.note.x).a = ItemDesc(lastOp'.note.x).b)
           => (pc' = "ok" /\ UNCHANGED <<rev, m_revision, m_index, m_joints>>)
       /\ Called("AddLine")
           => LET pts == LineDesc(lastOp'.note.x).pts
              IN  /\ pc' = "ok"
                  /\ Len(lastOp'.note.links) = Cardinality(NonDegenerate(pts))
                  /\ \A it \in m_index' \ m_index : ItemDesc(it).a # ItemDesc(it).b
                  /\ \A j \in m_joints' : \A it \in j.links :
                         Kind(it) = "SEGMENT" => ItemDesc(it).a # ItemDesc(it).b
                  /\ NonDegenerate(pts) = {}
                         => UNCHANGED <<rev, m_revision, m_index, m_joints>>]_vars

\* a zero-length segment was handed to Add while the index held items
C11_Witness ==
    /\ pc = "ok" /\ lastOp.op = "Add" /\ lastOp.note.dropped
    /\ ItemDesc(lastOp.note.x).a = ItemDesc(lastOp.note.x).b
    /\ m_index # {} /\ m_joints # {}

\* an Add without allowRedundant of a segment that has a twin in the index
RedundantAdd ==
    /\ Called("Add") /\ ~lastOp'.note.flag
    /\ ItemDesc(lastOp'.note.x).a # ItemDesc(lastOp'.note.x).b
    /\ Twins(lastOp'.note.x, m_index) # {}
\* the joints at the ends of segment x link neither x nor the new segment
\* cand that was dropped for it
Unwound(joints, x, cand) ==
    \A j \in joints :
        (j.pos \in Anchors(x) /\ j.net = Net(x))
            => (x \notin j.links /\ (cand \notin m_index => cand \notin j.links))

\* C12 as stated: Add( SEGMENT, allowRedundant = false ) of a segment with the
\* same unordered endpoints, start layer and net as an indexed segment is
\* dropped, leaving revision, index and joint map unchanged; when the original
\* is removed next, the index holds no segment with those endpoints and the
\* joints at both endpoints link neither the original nor the redundant one.
C12_RedundantSegmentDropped ==
    [][/\ RedundantAdd
           => /\ pc' = "ok" /\ lastOp'.note.dropped
              /\ UNCHANGED <<rev, m_revision, m_index, m_joints>>
       /\ (Called("Remove") /\ AddDroppedFor(lastOp'.note.x))
           => /\ pc' = "ok"
              /\ Twins(lastOp.note.x, m_index') = {}
              /\ Unwound(m_joints', lastOp'.note.x, lastOp.note.x)]_vars

\* C12 amended: as C12, the part about removing the original for an original
\* that is the only indexed segment with those endpoints, start layer and net.
C12_RedundantSegmentDroppedOnlyTwin ==
    [][/\ RedundantAdd
           => /\ pc' = "ok" /\ lastOp'.note.dropped
              /\ UNCHANGED <<rev, m_revision, m_index, m_joints>>
       /\ (Called("Remove") /\ AddDroppedFor(lastOp'.note.x)
                            /\ Twins(lastOp.note.x, m_index) = {lastOp'.note.x})
           => /\ pc' = "ok"
              /\ Twins(lastOp.note.x, m_index') = {}
              /\ Unwound(m_joints', lastOp'.note.x, lastOp.note.x)]_vars

\* a redundant segment was dropped, then its only twin was removed while
\* other items stayed
C12_Witness ==
    /\ pc = "ok" /\ lastOp.op = "Remove" /\ lastOp.note.old # 0 /\ lastOp.note.flag
    /\ lastOp.note.old # lastOp.note.x
    /\ m_index # {}

\* the k-th segment of a line chain that is not zero-length
RECURSIVE SegmentsOf(_, _)
SegmentsOf(pts, i) ==
    IF i >= Len(pts) THEN <<>>
    ELSE (IF pts[i] # pts[i + 1] THEN <<[a |-> pts[i], b |-> pts[i + 1]]>> ELSE <<>>)
             \o SegmentsOf(pts, i + 1)
\* the segments among S with the ends of sg in either order, the layer and
\* the net of line
TwinsOf(sg, line, S) ==
    {y \in S : /\ Kind(y) = "SEGMENT"
               /\ {ItemDesc(y).a, ItemDesc(y).b} = {sg.a, sg.b}
               /\ ItemDesc(y).lo = line.lo /\ Net(y) = line.net}

\* C13: Add( LINE, allowRedundant = false ) links, for every segment of the
\* line that is not zero-length, in order, exactly one SEGMENT with that
\* segment's endpoints, start layer and net: an already indexed one when
\* there is one, otherwise a newly inserted one; the index grows by the
\* number of segments that were not redundant, and the LINE's owner is the
\* current revision.
C13_AddLineSharesSegments ==
    [][(Called("AddLine") /\ ~lastOp'.note.flag)
         => LET line == LineDesc(lastOp'.note.x)
                sgs == SegmentsOf(line.pts, 1)
                links == lastOp'.note.links
                before(k) == m_index \cup {links[j] : j \in 1..(k - 1)}
            IN  /\ pc' = "ok"
                /\ Len(links) = Len(sgs)
                /\ \A k \in 1..Len(sgs) :
                      /\ links[k] \in TwinsOf(sgs[k], line, m_index')
                      /\ (TwinsOf(sgs[k], line, before(k)) # {}) <=> (links[k] \in before(k))
                /\ m_index' = m_index \cup SeqToSet(links)
                /\ Cardinality(m_index' \ m_index)
                      = Cardinality({k \in 1..Len(sgs) : TwinsOf(sgs[k], line, before(k)) = {}})
                /\ lastOp'.note.owner = m_revision']_vars

\* the items of S whose layers are connected to those of the items in acc
\* through overlapping layer ranges of items of S
RECURSIVE LayerReach(_, _)
LayerReach(acc, S) ==
    LET more == {y \in S \ acc : \E x \in acc :
                    LayersOverlap(ItemDesc(x).lo, ItemDesc(x).hi, ItemDesc(y).lo, ItemDesc(y).hi)}
    IN  IF more = {} THEN acc ELSE LayerReach(acc \cup more, S)
\* the indexed items that touch position p on net n
ItemsAt(index, p, n) == {x \in index : p \in Anchors(x) /\ Net(x) = n}
\* what FindJoint may return for a query
FindJointResults(pos, layer, net) ==
    {FindJoint(m_joints, pos, layer, net, o) : o \in ScansFor({}, TRUE)}

\* for every indexed VIA, FindJoint gives one joint for all the via's layers
ViaJoined ==
    \A v \in m_index : Kind(v) = "VIA" =>
        \E jt \in m_joints :
            \A l \in ItemDesc(v).lo..ItemDesc(v).hi :
                FindJointResults(ItemDesc(v).a, l, Net(v)) = {jt}

\* C14: while a VIA is indexed, FindJoint at its position and net returns one
\* and the same joint for every layer of the via; after Remove( via ) no
\* joint links the via, and two items that are left at its position and net
\* are linked from the same joint only if their layers are connected through
\* overlapping layer ranges of the items left there.
C14_ViaMergeAndSplit ==
    [][/\ pc' = "ok" => ViaJoined'
       /\ (Called("Remove") /\ Kind(lastOp'.note.x) = "VIA")
            => LET v == lastOp'.note.x
                   left == ItemsAt(m_index', ItemDesc(v).a, Net(v))
               IN  /\ pc' = "ok"
                   /\ \A j \in m_joints' : v \notin j.links
                   /\ \A j \in m_joints' :
                         (j.pos = ItemDesc(v).a /\ j.net = Net(v))
                            => \A x \in j.links, y \in j.links : y \in LayerReach({x}, left)]_vars

\* a via that joined two segments on different layers was removed: each
\* segment is now alone in a joint of its own
C14_Witness ==
    /\ pc = "ok" /\ lastOp.op = "Remove" /\ Kind(lastOp.note.x) = "VIA"
    /\ \E j1 \in m_joints, j2 \in m_joints :
          /\ j1 # j2 /\ j1.pos = j2.pos /\ j1.net = j2.net
          /\ j1.pos = ItemDesc(lastOp.note.x).a
          /\ Cardinality(j1.links) = 1 /\ Cardinality(j2.links) = 1

\* C15: FindJoint( pos, layer, net ) returns a joint of the map whose tag is
\* (pos, net) and whose layers contain layer when the map has such a joint,
\* and NULL when it has none; it never returns a joint of another position
\* or net.
C15_FindJointExact ==
    (pc = "ok" /\ lastOp.op = "FindJoint") =>
        LET match == {f \in m_joints :
                         /\ f.pos = lastOp.note.x /\ f.net = lastOp.note.owner
                         /\ f.lo <= lastOp.note.old /\ lastOp.note.old <= f.hi}
        IN  IF match # {} THEN lastOp.note.jt \in match
            ELSE lastOp.note.jt = NoJoint

\* C16: CheckoutRevision( T ) from a checked-out revision F of the tree trips
\* no assertion of Path or WalkPath, completes, and leaves T as the current
\* revision; CheckoutRevision( F ) from F changes nothing.
C16_CheckoutReachesTarget ==
    [][(Called("Checkout") /\ m_revision \in Tree)
         => /\ pc' = "ok"
            /\ ~lastOp'.note.tripped
            /\ m_revision' = lastOp'.note.x
            /\ lastOp'.note.x = m_revision
                  => UNCHANGED <<rev, m_revision, m_index, m_joints>>]_vars

\* C17: CheckoutRevision records no deltas: every revision of the tree has the
\* same added list, removed list, parent and branches after the call as
\* before, and the tree has the same revisions; only the current revision,
\* the index and the joints may change.
C17_NavigationRecordsNothing ==
    [][Called("Checkout")
         => /\ Tree' = Tree
            /\ nextRev' = nextRev
            /\ \A r \in Tree : /\ rev'[r].added = rev[r].added
                               /\ rev'[r].removed = rev[r].removed
                               /\ rev'[r].parent = rev[r].parent
                               /\ rev'[r].branches = rev[r].branches]_vars

\* a checkout that moved to another revision and replayed deltas on the index
C17_Witness ==
    /\ lastOp.op = "Checkout"
    /\ pc = "ok"
    /\ m_revision = lastOp.note.x
    /\ lastOp.note.old # m_revision
    /\ lastOp.note.old \in Tree
    /\ rev[lastOp.note.old].added # <<>>
    /\ rev[m_revision].added # <<>>
    /\ m_index # {}

\* C18: an Add or a Remove issued while the current revision has a child
\* branch trips a precondition: the call does not complete, no revision's
\* lists change and the index is as before.
C18_NonLeafMutationRejected ==
    [][((Called("Add") \/ Called("Remove")) /\ ~IsLeaf(m_revision))
         => /\ pc' = "crashed"
            /\ rev' = rev
            /\ m_index' = m_index]_vars

\* C19: AssembleLine( seed ) for a segment of the index completes and returns
\* a line of at least one segment whose linked segments include the seed; the
\* origin index it writes is the first position of the seed among the linked
\* segments.
C19_AssembleLineIncludesSeed ==
    [][Called("AssembleLine")
         => /\ pc' = "ok"
            /\ Len(lastOp'.note.corners) >= 2
            /\ Len(lastOp'.note.links) >= 1
            /\ \E n \in 1..Len(lastOp'.note.links) : lastOp'.note.links[n] = lastOp'.note.x
            /\ lastOp'.note.origin \in 0..(Len(lastOp'.note.links) - 1)
            /\ lastOp'.note.links[lastOp'.note.origin + 1] = lastOp'.note.x
            /\ \A n \in 1..lastOp'.note.origin : lastOp'.note.links[n] # lastOp'.note.x]_vars

\* a line of several segments assembled from a seed that is not its first one
C19_Witness ==
    /\ lastOp.op = "AssembleLine"
    /\ pc = "ok"
    /\ Len(lastOp.note.links) >= 2
    /\ lastOp.note.origin >= 1
    /\ lastOp.note.links[lastOp.note.origin + 1] = lastOp.note.x

\* the joint of the table that holds segment seg's end at corner c
JointAt(c, seg) == FindJoint(m_joints, c, ItemDesc(seg).lo, Net(seg), NoTag)
\* a joint at which followLine stops
StopsAt(jt, aStopAtLockedJoints) == (aStopAtLockedJoints /\ jt.locked) \/ ~IsLineCorner(jt)

\* C20: in the line AssembleLine returns, each pair of consecutive corners is
\* the two ends of the linked segment at that place; every interior corner is
\* a joint with exactly two links, both segments and those the line links on
\* either side of it, and not locked when the walk stops at locked joints;
\* each end of the line is at a joint that is locked (when the walk stops at
\* locked joints) or not a line corner, or the line closes a loop.
C20_AssembleLineStopsAtJoints ==
    (lastOp.op = "AssembleLine" /\ pc = "ok")
       => LET cs == lastOp.note.corners
              ls == lastOp.note.links
              n == Len(cs)
          IN  /\ n >= 2
              /\ Len(ls) >= n - 1
              /\ \A k \in 1..(n - 1) :
                     {cs[k], cs[k + 1]} = {ItemDesc(ls[k]).a, ItemDesc(ls[k]).b}
              /\ \A k \in 2..(n - 1) :
                     LET jt == JointAt(cs[k], ls[k])
                     IN  /\ jt # NoJoint
                         /\ jt = JointAt(cs[k], ls[k - 1])
                         /\ IsLineCorner(jt)
                         /\ jt.links = {ls[k - 1], ls[k]}
                         /\ lastOp.note.flag => ~jt.locked
              /\ \/ n >= 3 /\ cs[1] = cs[n] /\ Len(ls) = n
                 \/ /\ Len(ls) = n - 1
                    /\ StopsAt(JointAt(cs[1], ls[1]), lastOp.note.flag)
                    /\ StopsAt(JointAt(cs[n], ls[n - 1]), lastOp.note.flag)

\* two chained segments with the joint between them locked: the walk from one
\* of them stops there and the line has two corners and one segment
C20_Witness ==
    /\ lastOp.op = "AssembleLine"
    /\ pc = "ok"
    /\ lastOp.note.flag
    /\ Len(lastOp.note.corners) = 2
    /\ lastOp.note.links = <<lastOp.note.x>>
    /\ \E k \in 1..2 : LET jt == JointAt(lastOp.note.corners[k], lastOp.note.x)
                        IN  jt.locked /\ IsLineCorner(jt)

\* C26: the root has no parent, and every revision in the branch list of a
\* revision P of the tree has P as its parent.
C26_TreeWellFormed ==
    /\ rev[Root].parent = NULL
    /\ \A p \in Tree : \A k \in 1..Len(rev[p].branches) :
           rev[rev[p].branches[k]].parent = p

\* C27: every item in the removed items of a revision R of the tree is in the
\* added items of a revision above R on the way to the root, and every item
\* the spatial index or a joint links is in the added items of a revision of
\* the tree: no call has destroyed an item that is still referred to.
C27_NoDanglingRemovals ==
    pc = "ok" =>
        /\ \A r \in Tree : \A it \in SeqToSet(rev[r].removed) :
               \E k \in 2..Len(PathToRoot(r)) : Contains(rev[PathToRoot(r)[k]].added, it)
        /\ \A it \in m_index \cup UNION {j.links : j \in m_joints} :
               \E r \in Tree : Contains(rev[r].added, it)

\* ------------------------------------------- squash and revert up to a revision
\* the loops of NODE::SquashToRevision (toParent = FALSE) and
\* NODE::SquashToParentRevision (toParent = TRUE) from state s on;
\* REVISION::Squash asserts m_parent and then calls through it
RECURSIVE squashWhile(_, _, _)
squashWhile(s, aAncestor, toParent) ==
    IF (IF toParent THEN s.rev[s.cur].parent ELSE s.cur) = aAncestor THEN s
    ELSE IF s.rev[s.cur].parent = NULL THEN [s EXCEPT !.w.fault = TRUE]
    ELSE squashWhile([s EXCEPT !.rev = Squash(s.rev, s.cur), !.cur = s.rev[s.cur].parent],
                     aAncestor, toParent)

\* the loops of NODE::RevertToRevision and NODE::RevertToParentRevision;
\* REVISION::Revert calls m_parent->RemoveBranch( this )
RECURSIVE revertWhile(_, _, _)
revertWhile(s, aAncestor, toParent) ==
    IF (IF toParent THEN s.rev[s.cur].parent ELSE s.cur) = aAncestor THEN s
    ELSE IF s.rev[s.cur].parent = NULL THEN [s EXCEPT !.w.fault = TRUE]
    ELSE revertWhile([rev |-> RemoveBranch(s.rev, s.rev[s.cur].parent, s.cur),
                      cur |-> s.rev[s.cur].parent,
                      w |-> revertRevision(s.w, s.rev[s.cur])],
                     aAncestor, toParent)

\* the caller names a revision the current one descends from
SquashToRevision(aAncestor) ==
    /\ pc = "ok"
    /\ steps < MaxCalls
    /\ Contains(PathToRoot(m_revision), aAncestor)
    /\ Commit(squashWhile(State(NoTag), aAncestor, FALSE),
              [op |-> "SquashToRevision",
               note |-> [NoNote EXCEPT !.x = aAncestor, !.old = m_revision]], NoMark)

SquashToParentRevision(aAncestor) ==
    /\ pc = "ok"
    /\ steps < MaxCalls
    /\ aAncestor # m_revision
    /\ Contains(PathToRoot(m_revision), aAncestor)
    /\ Commit(squashWhile(State(NoTag), aAncestor, TRUE),
              [op |-> "SquashToParentRevision",
               note |-> [NoNote EXCEPT !.x = aAncestor, !.old = m_revision]], NoMark)

RevertToRevision(aAncestor) ==
    /\ pc = "ok"
    /\ steps < MaxCalls
    /\ Contains(PathToRoot(m_revision), aAncestor)
    /\ \E s \in {Settled(revertWhile(State(o), aAncestor, FALSE)) :
                      o \in ScansFor(m_index, FALSE)} :
         Commit(s, [op |-> "RevertToRevision",
                    note |-> [NoNote EXCEPT !.x = aAncestor, !.old = m_revision]], NoMark)

RevertToParentRevision(aAncestor) ==
    /\ pc = "ok"
    /\ steps < MaxCalls
    /\ aAncestor # m_revision
    /\ Contains(PathToRoot(m_revision), aAncestor)
    /\ \E s \in {Settled(revertWhile(State(o), aAncestor, TRUE)) :
                      o \in ScansFor(m_index, FALSE)} :
         Commit(s, [op |-> "RevertToParentRevision",
                    note |-> [NoNote EXCEPT !.x = aAncestor, !.old = m_revision]], NoMark)

\* clients that squash and revert over several revisions at once
MaxToSteps == 6
ToNext ==
    \/ \E it \in Items, ar \in BOOLEAN : Add(it, ar)
    \/ \E it \in Items : Remove(it)
    \/ BranchMove
    \/ \E t \in Revs : CheckoutRevision(t)
    \/ \E a \in Revs : SquashToRevision(a)
    \/ \E a \in Revs : SquashToParentRevision(a)
    \/ \E a \in Revs : RevertToRevision(a)
    \/ \E a \in Revs : RevertToParentRevision(a)
    \/ UseAfterFree
SpecTo == Init /\ [][steps < MaxToSteps /\ ToNext]_vars

\* the revisions from r up to and with the revision a above it
UpTo(r, a) ==
    LET p == PathToRoot(r)
    IN  {p[k] : k \in {k \in 1..Len(p) : \A m \in 1..(k - 1) : p[m] # a}}

\* C24: SquashToRevision( anc ), called with anc the current revision or a
\* revision above it, completes with anc the current revision and the index
\* and the joints as before; anc's added items are then the items added in
\* the revisions from anc down to the former current one and removed in
\* none of them, its removed items the items removed in one of them and
\* added in none, each item once.  SquashToParentRevision( anc ) completes
\* with the current revision a branch of anc.
C24_SquashToRevision ==
    [][/\ Called("SquashToRevision")
          => LET anc == lastOp'.note.x
                 chain == UpTo(m_revision, anc)
                 adds == UNION {SeqToSet(rev[r].added) : r \in chain}
                 rems == UNION {SeqToSet(rev[r].removed) : r \in chain}
             IN  /\ pc' = "ok"
                 /\ m_revision' = anc
                 /\ m_index' = m_index /\ m_joints' = m_joints
                 /\ SeqToSet(rev'[anc].added) = adds \ rems
                 /\ SeqToSet(rev'[anc].removed) = rems \ adds
                 /\ Len(rev'[anc].added) = Cardinality(adds \ rems)
                 /\ Len(rev'[anc].removed) = Cardinality(rems \ adds)
       /\ Called("SquashToParentRevision")
          => /\ pc' = "ok"
             /\ m_index' = m_index /\ m_joints' = m_joints
             /\ Contains(rev'[lastOp'.note.x].branches, m_revision')
             /\ rev'[m_revision'].parent = lastOp'.note.x]_vars

\* C25: RevertToRevision( anc ), called with anc the current revision or a
\* revision above it, completes with anc the current revision, the revisions
\* from the former current one up to anc (anc itself not) no longer in the
\* tree, and the index holding exactly the items visible at anc.
C25_RevertToRevision ==
    [][Called("RevertToRevision")
         => LET anc == lastOp'.note.x
            IN  /\ pc' = "ok"
                /\ m_revision' = anc
                /\ Tree' \cap (UpTo(m_revision, anc) \ {anc}) = {}
                /\ anc \in Tree'
                /\ \A it \in Items : (it \in m_index <=> Visible(it, m_revision))']_vars

\* the part of the way from r to the root that lies below revision a
Below(r, a) ==
    LET p == PathToRoot(r)
        k == CHOOSE k \in 1..Len(p) : p[k] = a
    IN  SubSeq(p, 1, k - 1)

\* C28: for revisions F and T of the tree with lowest common ancestor L,
\* Path( F, T ) is found without a failed assertion; its revert sequence is
\* F, the revision above F, and so on up to L, L not included; its apply
\* sequence is the revisions below L down to T, parent first; its size is
\* depth(F) + depth(T) - 2 * depth(L); Path( F, F ) is empty.
C28_PathShape ==
    \A F \in Tree, T \in Tree :
        LET path == Path(rev, F, T)
            pf == PathToRoot(F)
            L == pf[CHOOSE k \in 1..Len(pf) :
                       /\ Contains(PathToRoot(T), pf[k])
                       /\ \A m \in 1..(k - 1) : ~Contains(PathToRoot(T), pf[m])]
        IN  /\ path.found
            /\ RevertSequence(path) = Below(F, L)
            /\ ApplySequence(path) = Reverse(Below(T, L))
            /\ Len(path.revert) + Len(path.apply)
                  = (Len(pf) - 1) + (Len(PathToRoot(T)) - 1) - 2 * (Len(PathToRoot(L)) - 1)
            /\ F = T => path.revert = <<>> /\ path.apply = <<>>

\* -------------------------------------------------------------- CHANGE_SET
\* CHANGE_SET::Add that never erases a removal
ChangeSetAdd_noCancel(cs, aItem) == [cs EXCEPT !.added = Append(@, aItem)]

\* CHANGE_SET::Add and CHANGE_SET::Remove on cs = [added, removed]
ChangeSetAdd(cs, aItem) ==
    IF Contains(cs.removed, aItem) THEN [cs EXCEPT !.removed = EraseFirst(@, aItem)]
    ELSE [cs EXCEPT !.added = Append(@, aItem)]
ChangeSetRemove(cs, aItem) ==
    IF Contains(cs.added, aItem) THEN [cs EXCEPT !.added = EraseFirst(@, aItem)]
    ELSE [cs EXCEPT !.removed = Append(@, aItem)]

\* one of the loops of Apply and Revert: Add (adding) or Remove each item
RECURSIVE ChangeSetEach(_, _, _)
ChangeSetEach(cs, items, adding) ==
    IF items = <<>> THEN cs
    ELSE ChangeSetEach(IF adding THEN ChangeSetAdd(cs, Head(items))
                       ELSE ChangeSetRemove(cs, Head(items)),
                       Tail(items), adding)

\* CHANGE_SET::Apply and CHANGE_SET::Revert for the REVISION with members rec
ChangeSetApply(cs, rec) == ChangeSetEach(ChangeSetEach(cs, rec.added, TRUE), rec.removed, FALSE)
ChangeSetRevert(cs, rec) == ChangeSetEach(ChangeSetEach(cs, rec.added, FALSE), rec.removed, TRUE)

\* CHANGE_SET::FromPath
FromPath(R, path) ==
    LET RECURSIVE each(_, _, _)
        each(cs, list, applying) ==
            IF list = <<>> THEN cs
            ELSE each(IF applying THEN ChangeSetApply(cs, R[Head(list)])
                      ELSE ChangeSetRevert(cs, R[Head(list)]),
                      Tail(list), applying)
    IN  each(each([added |-> <<>>, removed |-> <<>>], RevertSequence(path), FALSE),
             ApplySequence(path), TRUE)

\* a client applies a revision of the tree to its change set
ChangesApply(r) ==
    /\ pc = "ok"
    /\ steps < MaxCalls
    /\ r \in Tree
    /\ changes' = ChangeSetApply(changes, rev[r])
    /\ lastOp' = [op |-> "Apply", note |-> [NoNote EXCEPT !.x = r]]
    /\ steps' = steps + 1
    /\ mark' = NoMark
    /\ UNCHANGED <<rev, nextRev, m_revision, m_index, m_joints, pc>>

ChangesRevert(r) ==
    /\ pc = "ok"
    /\ steps < MaxCalls
    /\ r \in Tree
    /\ changes' = ChangeSetRevert(changes, rev[r])
    /\ lastOp' = [op |-> "RevertChanges", note |-> [NoNote EXCEPT !.x = r]]
    /\ steps' = steps + 1
    /\ mark' = NoMark
    /\ UNCHANGED <<rev, nextRev, m_revision, m_index, m_joints, pc>>

\* changes = CHANGE_SET::FromPath( PNS::Path( aFrom, aTo ) ); an assertion of
\* Path that does not hold ends the program where assertions are compiled in
ChangesFromPath(aFrom, aTo) ==
    /\ pc = "ok"
    /\ steps < MaxCalls
    /\ aFrom \in Tree /\ aTo \in Tree
    /\ lastOp' = [op |-> "FromPath", note |-> [NoNote EXCEPT !.x = aFrom, !.old = aTo]]
    /\ mark' = NoMark
    /\ \/ /\ ~Path(rev, aFrom, aTo).found
          /\ pc' = "crashed"
          /\ UNCHANGED <<changes, steps>>
       \/ /\ changes' = FromPath(rev, Path(rev, aFrom, aTo))
          /\ steps' = steps + 1
          /\ UNCHANGED pc
    /\ UNCHANGED <<rev, nextRev, m_revision, m_index, m_joints>>

\* clients that summarise revisions in a change set
MaxChangeSteps == 6
ChangesNext ==
    \/ \E it \in Items, ar \in BOOLEAN : Add(it, ar)
    \/ \E it \in Items : Remove(it)
    \/ BranchMove
    \/ NodeSquash
    \/ NodeRevert
    \/ \E t \in Revs : CheckoutRevision(t)
    \/ \E r \in Revs : ChangesApply(r)
    \/ \E r \in Revs : ChangesRevert(r)
    \/ \E f \in Revs, t \in Revs : ChangesFromPath(f, t)
    \/ UseAfterFree
SpecChanges == Init /\ [][steps < MaxChangeSteps /\ ChangesNext]_vars

\* C29: the change set built by FromPath( Path( F, T ) ) has as added items
\* exactly the items visible at T and not at F, as removed items exactly the
\* items visible at F and not at T, and no item in both lists.
C29_FromPathIsDifference ==
    (lastOp.op = "FromPath" /\ pc = "ok") =>
        /\ SeqToSet(changes.added)
              = {it \in Items : Visible(it, lastOp.note.old) /\ ~Visible(it, lastOp.note.x)}
        /\ SeqToSet(changes.removed)
              = {it \in Items : Visible(it, lastOp.note.x) /\ ~Visible(it, lastOp.note.old)}
        /\ SeqToSet(changes.added) \cap SeqToSet(changes.removed) = {}

\* the added set and the removed set of a change set
ChangeSets(cs) == <<SeqToSet(cs.added), SeqToSet(cs.removed)>>

\* C30: for the client's change set and two revisions of the tree whose lists
\* share no item, Apply of the one and then the other gives the same added
\* set and the same removed set in either order; and for every revision R of
\* the tree, Apply( R ) followed by Revert( R ) gives back the added set and
\* the removed set the change set had.
C30_ApplyCommutesAndReverts ==
    /\ \A r1 \in Tree, r2 \in Tree :
          (SeqToSet(rev[r1].added) \cup SeqToSet(rev[r1].removed))
             \cap (SeqToSet(rev[r2].added) \cup SeqToSet(rev[r2].removed)) = {}
          => ChangeSets(ChangeSetApply(ChangeSetApply(changes, rev[r1]), rev[r2]))
               = ChangeSets(ChangeSetApply(ChangeSetApply(changes, rev[r2]), rev[r1]))
    /\ \A r \in Tree :
          ChangeSets(ChangeSetRevert(ChangeSetApply(changes, rev[r]), rev[r]))
            = ChangeSets(changes)

\* a change set holding an item, and two revisions with different items of
\* which one removes that item
C30_Witness ==
    /\ lastOp.op \in {"Apply", "RevertChanges"}
    /\ changes.added # <<>>
    /\ \E r1 \in Tree, r2 \in Tree :
          /\ r1 # r2
          /\ rev[r1].added # <<>>
          /\ rev[r2].removed # <<>>
          /\ SeqToSet(rev[r2].removed) \cap SeqToSet(changes.added) # {}
          /\ (SeqToSet(rev[r1].added) \cup SeqToSet(rev[r1].removed))
                \cap (SeqToSet(rev[r2].added) \cup SeqToSet(rev[r2].removed)) = {}

\* ------------------------------------------------------ collision queries
\* the largest clearance the index is asked for, in units of 100000 nm
m_maxClearance == 8
\* NODE::GetClearance with no rule resolver installed, in the same units
GetClearance(aA, aB) == 1
\* LINE::Width of the LINEs a client queries with, in the same units
LineWidth == 2

\* what a query is made with: an item of the catalogue, or a client's LINE on
\* a net of its own (its line chain is that of LineDesc), one sub-segment of
\* such a LINE, or the via the LINE ends with
ItemHead(i) == [part |-> "item", of |-> i, seg |-> 0, net |-> Net(i), via |-> FALSE]
LineHead(k, n, v) == [part |-> "line", of |-> k, seg |-> 0, net |-> n, via |-> v]
\* the SEGMENTs made of the sub-segments of a LINE, then LINE::Via if it ends
\* with one; any other item alone
Parts(h) ==
    IF h.part # "line" THEN <<h>>
    ELSE [i \in 1..(Len(LineDesc(h.of).pts) - 1) |-> [h EXCEPT !.part = "seg", !.seg = i]]
            \o (IF h.via THEN <<[h EXCEPT !.part = "via"]>> ELSE <<>>)
HeadDesc(h) ==
    LET pts == LineDesc(h.of).pts
        lo == LineDesc(h.of).lo
        ends == {pts[i] : i \in 1..Len(pts)}
    IN  CASE h.part = "item" -> ItemDesc(h.of)
          [] h.part = "seg" ->
                [kind |-> "SEGMENT", net |-> h.net, lo |-> lo, hi |-> lo,
                 a |-> pts[h.seg], b |-> pts[h.seg + 1]]
          [] h.part = "via" ->
                [kind |-> "VIA", net |-> h.net, lo |-> 0, hi |-> 1,
                 a |-> pts[Len(pts)], b |-> pts[Len(pts)]]
          [] OTHER ->
                [kind |-> "LINE", net |-> h.net, lo |-> lo, hi |-> lo,
                 a |-> CHOOSE x \in ends : \A y \in ends : x <= y,
                 b |-> CHOOSE x \in ends : \A y \in ends : x >= y]

\* distance between the shapes of two items; the points of the catalogue
\* lie 5 units apart
Gap(d, e) ==
    Max(0, Max(5 * Min(d.a, d.b) - 5 * Max(e.a, e.b),
               5 * Min(e.a, e.b) - 5 * Max(d.a, d.b)))
\* ITEM::Collide
Collide(d, e, aClearance, aDifferentNetsOnly) ==
    /\ ~(aDifferentNetsOnly /\ d.net = e.net /\ d.net >= 0)
    /\ d.lo <= e.hi /\ e.lo <= d.hi
    /\ Gap(d, e) < aClearance

\* DEFAULT_OBSTACLE_VISITOR::operator(): v is the visitor, go what it returned
visitCandidate_unrefined(v, aCandidate) ==
    IF Kind(aCandidate) \notin v.m_kindMask THEN [v EXCEPT !.go = TRUE]
    ELSE [v EXCEPT !.m_tab = Append(@, [m_item |-> aCandidate, m_head |-> v.m_item]),
                   !.m_matchCount = @ + 1,
                   !.go = ~(v.m_limitCount > 0 /\ v.m_matchCount + 1 >= v.m_limitCount)]
visitCandidate_unlimited(v, aCandidate) ==
    LET clearance ==
            IF v.m_forceClearance >= 0 THEN v.m_forceClearance
            ELSE v.m_extraClearance + GetClearance(aCandidate, v.m_item)
    IN  IF Kind(aCandidate) \notin v.m_kindMask THEN [v EXCEPT !.go = TRUE]
        ELSE IF ~Collide(ItemDesc(aCandidate), HeadDesc(v.m_item), clearance,
                         v.m_differentNetsOnly)
        THEN [v EXCEPT !.go = TRUE]
        ELSE [v EXCEPT !.m_tab = Append(@, [m_item |-> aCandidate, m_head |-> v.m_item]),
                       !.m_matchCount = @ + 1,
                       !.go = TRUE]
visitCandidate(v, aCandidate) ==
    LET clearance ==
            IF v.m_forceClearance >= 0 THEN v.m_forceClearance
            ELSE v.m_extraClearance + GetClearance(aCandidate, v.m_item)
    IN  IF Kind(aCandidate) \notin v.m_kindMask THEN [v EXCEPT !.go = TRUE]
        ELSE IF ~Collide(ItemDesc(aCandidate), HeadDesc(v.m_item), clearance,
                         v.m_differentNetsOnly)
        THEN [v EXCEPT !.go = TRUE]
        ELSE [v EXCEPT !.m_tab = Append(@, [m_item |-> aCandidate, m_head |-> v.m_item]),
                       !.m_matchCount = @ + 1,
                       !.go = ~(v.m_limitCount > 0 /\ v.m_matchCount + 1 >= v.m_limitCount)]

\* INDEX::Query: the visitor is called for the candidates in the order the
\* index holds them, until it returns false
RECURSIVE Query(_, _)
Query(order, v) ==
    IF order = <<>> \/ ~v.go THEN v
    ELSE Query(Tail(order), visitCandidate(v, Head(order)))

\* NODE::QueryColliding( aItem, aObstacles, ... ): the lists aObstacles may
\* hold afterwards, one for each order of the index
queryColliding(index, aItem, aObstacles, aKindMask, aLimitCount, aDifferentNetsOnly, aForce) ==
    LET visitor ==
            [m_tab |-> aObstacles, m_item |-> aItem, m_kindMask |-> aKindMask,
             m_limitCount |-> aLimitCount, m_matchCount |-> 0,
             m_extraClearance |->
                 IF HeadDesc(aItem).kind = "LINE" THEN LineWidth \div 2 ELSE 0,
             m_differentNetsOnly |-> aDifferentNetsOnly,
             m_forceClearance |-> aForce, go |-> TRUE]
        near == {c \in index : Gap(ItemDesc(c), HeadDesc(aItem)) <= m_maxClearance}
    IN  {Query(order, visitor).m_tab : order \in Orders(near)}

\* The queries leave the NODE as it is, so a run is told by the last query
\* made after its last change: a client asks after a change of the NODE, with
\* an empty list, or goes on with the list the query before it filled and the
\* same arguments, as NearestObstacle does.
QueryColliding(aItem, aKindMask, aLimitCount, aDifferentNetsOnly, aForceClearance, reuse) ==
    /\ pc = "ok"
    /\ steps < MaxCalls
    /\ reuse = (lastOp.op = "QueryColliding")
    /\ lastOp.op \notin {"CheckColliding", "NearestObstacle", "CheckCollidingPair"}
    /\ reuse => /\ aKindMask = lastOp.note.args.kindMask
                /\ aLimitCount = lastOp.note.args.limit
                /\ aDifferentNetsOnly = lastOp.note.args.differentNetsOnly
                /\ aForceClearance = lastOp.note.args.forceClearance
    /\ LET aObstacles == IF reuse THEN lastOp.note.tab ELSE <<>>
       IN  \E tab \in queryColliding(m_index, aItem, aObstacles, aKindMask, aLimitCount,
                                     aDifferentNetsOnly, aForceClearance) :
             lastOp' = [op |-> "QueryColliding",
                        note |-> [NoNote EXCEPT
                                     !.head = aItem,
                                     !.args = [kindMask |-> aKindMask, limit |-> aLimitCount,
                                               differentNetsOnly |-> aDifferentNetsOnly,
                                               forceClearance |-> aForceClearance,
                                               pre |-> Len(aObstacles)],
                                     !.tab = tab,
                                     !.sibs = Len(tab)]]
    /\ mark' = NoMark
    /\ steps' = steps + 1
    /\ UNCHANGED <<rev, nextRev, m_revision, m_index, m_joints, pc, changes>>

\* NODE::CheckColliding( aItemA, aKindMask ): the results it may give, <<>>
\* for none
checkColliding(index, aItemA, aKindMask) ==
    LET hits(h) == queryColliding(index, h, <<>>, aKindMask, 1, TRUE, -1)
        RECURSIVE first(_)
        first(i) ==
            IF i > Len(Parts(aItemA)) THEN {<<>>}
            ELSE {<<t[1]>> : t \in {u \in hits(Parts(aItemA)[i]) : u # <<>>}}
                 \cup (IF <<>> \in hits(Parts(aItemA)[i]) THEN first(i + 1) ELSE {})
    IN  first(1)

CheckColliding(aItemA, aKindMask) ==
    /\ pc = "ok"
    /\ steps < MaxCalls
    /\ lastOp.op \notin {"QueryColliding", "CheckColliding", "NearestObstacle",
                         "CheckCollidingPair"}
    /\ \E r \in checkColliding(m_index, aItemA, aKindMask) :
         lastOp' = [op |-> "CheckColliding",
                    note |-> [NoNote EXCEPT !.head = aItemA,
                                            !.args = [kindMask |-> aKindMask],
                                            !.hit = r]]
    /\ mark' = NoMark
    /\ steps' = steps + 1
    /\ UNCHANGED <<rev, nextRev, m_revision, m_index, m_joints, pc, changes>>

\* the largest int
INT_MAX == 2147483647
\* What ITEM::Hull, SHAPE_LINE_CHAIN::Intersect, PathLength and Length give
\* NearestObstacle for the indexed item c and the LINE aItem: the crossings of
\* the via's hull with the item's hull, then those of the item's hull with
\* the line chain, each with its point and its distance along the LINE.  A
\* hull is told by the two points at which it crosses the axis the
\* catalogue's points lie on; crossings come in the order of their position.
Intersections(c, aItem, aClearance, aViaClearance) ==
    LET pts == LineDesc(aItem.of).pts
        Dist(x, y) == IF x < y THEN y - x ELSE x - y
        RECURSIVE Length(_)
        Length(i) == IF i >= Len(pts) THEN 0
                     ELSE Dist(5 * pts[i], 5 * pts[i + 1]) + Length(i + 1)
        On(p, i) == Min(5 * pts[i], 5 * pts[i + 1]) <= p /\ p <= Max(5 * pts[i], 5 * pts[i + 1])
        RECURSIVE PathLength(_, _)
        PathLength(p, i) == IF On(p, i) THEN Dist(5 * pts[i], p)
                            ELSE Dist(5 * pts[i], 5 * pts[i + 1]) + PathLength(p, i + 1)
        Isect(p, crosses, dist) == IF crosses THEN <<[p |-> p, dist |-> dist]>> ELSE <<>>
        OnViaHull(p, pos, grown) ==
            Isect(p, aItem.via /\ (p = pos - grown \/ p = pos + grown), Length(1) + Dist(p, pos))
        OnLine(p) == Isect(p, \E i \in 1..(Len(pts) - 1) : On(p, i), PathLength(p, 1))
        Cross(p1, p2, pos, grown) ==
            OnViaHull(p1, pos, grown) \o OnViaHull(p2, pos, grown) \o OnLine(p1) \o OnLine(p2)
        Hull(d, grown) ==
            Cross(5 * Min(d.a, d.b) - grown, 5 * Max(d.a, d.b) + grown,
                  5 * pts[Len(pts)], aViaClearance + LineWidth \div 2)
    IN  Hull(ItemDesc(c), aClearance + LineWidth \div 2)

\* the loop of NODE::NearestObstacle over obs_list; m_hull is told by the
\* item it is the hull of
RECURSIVE nearestLoop(_, _, _, _, _)
nearestLoop(obs_list, k, aItem, aRestrictedSet, nearest) ==
    LET RECURSIVE each(_, _, _, _)
        each(isect_list, i, item, n) ==
            IF i > Len(isect_list) THEN n
            ELSE each(isect_list, i + 1, item,
                      [n EXCEPT
                          !.found_isects = @ \/ isect_list[i].dist < n.m_distFirst,
                          !.m_distFirst = Min(@, isect_list[i].dist),
                          !.m_ipFirst = IF isect_list[i].dist < n.m_distFirst
                                        THEN isect_list[i].p ELSE @,
                          !.m_item = IF isect_list[i].dist < n.m_distFirst THEN item ELSE @,
                          !.m_hull = IF isect_list[i].dist < n.m_distFirst THEN item ELSE @,
                          !.dist_max = Max(@, isect_list[i].dist),
                          !.ip_last = IF isect_list[i].dist > n.dist_max
                                      THEN isect_list[i].p ELSE @])
        Last(n) == [n EXCEPT !.m_ipLast = n.ip_last, !.m_distLast = n.dist_max]
        Obstacle(obs) ==
            IF aRestrictedSet.given /\ obs.m_item \notin aRestrictedSet.items THEN nearest
            ELSE Last(each(Intersections(obs.m_item, aItem, GetClearance(obs.m_item, aItem),
                                         GetClearance(obs.m_item, [aItem EXCEPT !.part = "via"])),
                           1, obs.m_item,
                           [nearest EXCEPT !.dist_max = -INT_MAX - 1, !.ip_last = 0]))
    IN  IF k > Len(obs_list) THEN nearest
        ELSE nearestLoop(obs_list, k + 1, aItem, aRestrictedSet, Obstacle(obs_list[k]))

nearestObstacle_lastFound(index, aItem, aKindMask, aRestrictedSet, junk) ==
    LET RECURSIVE gather(_, _)
        gather(i, tabs) ==
            IF i > Len(Parts(aItem)) THEN tabs
            ELSE gather(i + 1,
                        UNION {queryColliding(index, Parts(aItem)[i], t, aKindMask, -1,
                                              TRUE, -1) : t \in tabs})
        result(obs_list) ==
            LET nearest == nearestLoop(obs_list, 1, aItem, aRestrictedSet,
                              [m_head |-> junk, m_item |-> NULL, m_hull |-> NULL,
                               m_ipFirst |-> 0, m_ipLast |-> 0,
                               m_distFirst |-> INT_MAX, m_distLast |-> junk,
                               found_isects |-> FALSE, dist_max |-> 0, ip_last |-> 0])
            IN  [m_head |-> nearest.m_head,
                 m_item |-> IF ~nearest.found_isects THEN obs_list[Len(obs_list)].m_item
                            ELSE nearest.m_item,
                 m_hull |-> nearest.m_hull,
                 m_ipFirst |-> nearest.m_ipFirst, m_ipLast |-> nearest.m_ipLast,
                 m_distFirst |-> nearest.m_distFirst, m_distLast |-> nearest.m_distLast]
    IN  {[obs_list |-> obs_list,
          hit |-> IF obs_list = <<>> THEN <<>> ELSE <<result(obs_list)>>] :
            obs_list \in gather(1, {<<>>})}

\* NODE::NearestObstacle: the lists it may gather and the result it gives for
\* each, <<>> for none; n is 0 when the list is empty, and then only.  junk
\* is what the fields of nearest hold that nothing has been assigned to.
nearestObstacle(index, aItem, aKindMask, aRestrictedSet, junk) ==
    LET RECURSIVE gather(_, _)
        gather(i, tabs) ==
            IF i > Len(Parts(aItem)) THEN tabs
            ELSE gather(i + 1,
                        UNION {queryColliding(index, Parts(aItem)[i], t, aKindMask, -1,
                                              TRUE, -1) : t \in tabs})
        result(obs_list) ==
            LET nearest == nearestLoop(obs_list, 1, aItem, aRestrictedSet,
                              [m_head |-> junk, m_item |-> NULL, m_hull |-> NULL,
                               m_ipFirst |-> 0, m_ipLast |-> 0,
                               m_distFirst |-> INT_MAX, m_distLast |-> junk,
                               found_isects |-> FALSE, dist_max |-> 0, ip_last |-> 0])
            IN  [m_head |-> nearest.m_head,
                 m_item |-> IF ~nearest.found_isects THEN obs_list[1].m_item
                            ELSE nearest.m_item,
                 m_hull |-> nearest.m_hull,
                 m_ipFirst |-> nearest.m_ipFirst, m_ipLast |-> nearest.m_ipLast,
                 m_distFirst |-> nearest.m_distFirst, m_distLast |-> nearest.m_distLast]
    IN  {[obs_list |-> obs_list,
          hit |-> IF obs_list = <<>> THEN <<>> ELSE <<result(obs_list)>>] :
            obs_list \in gather(1, {<<>>})}

NearestObstacle(aItem, aKindMask, aRestrictedSet) ==
    /\ pc = "ok"
    /\ steps < MaxCalls
    /\ lastOp.op \notin {"QueryColliding", "CheckColliding", "NearestObstacle",
                         "CheckCollidingPair"}
    /\ \E r \in UNION {nearestObstacle(m_index, aItem, aKindMask, aRestrictedSet, junk) :
                          junk \in {0, -1}} :
         lastOp' = [op |-> "NearestObstacle",
                    note |-> [NoNote EXCEPT !.head = aItem,
                                            !.args = [kindMask |-> aKindMask,
                                                      restricted |-> aRestrictedSet],
                                            !.tab = r.obs_list,
                                            !.hit = r.hit]]
    /\ mark' = NoMark
    /\ steps' = steps + 1
    /\ UNCHANGED <<rev, nextRev, m_revision, m_index, m_joints, pc, changes>>

\* NODE::CheckColliding( aItemA, aItemB, aKindMask, aForceClearance ); the
\* kind mask is not looked at
checkCollidingPair(aItemA, aItemB, aKindMask, aForceClearance) ==
    LET Widen(h) == IF HeadDesc(h).kind = "LINE" THEN LineWidth \div 2 ELSE 0
        clearance == IF aForceClearance >= 0 THEN aForceClearance
                     ELSE GetClearance(aItemA, aItemB)
    IN  Collide(HeadDesc(aItemA), HeadDesc(aItemB),
                clearance + Widen(aItemA) + Widen(aItemB), TRUE)

CheckCollidingPair(aItemA, aItemB, aKindMask, aForceClearance) ==
    /\ pc = "ok"
    /\ steps < MaxCalls
    /\ lastOp.op \notin {"QueryColliding", "CheckColliding", "NearestObstacle",
                         "CheckCollidingPair"}
    /\ lastOp' = [op |-> "CheckCollidingPair",
                  note |-> [NoNote EXCEPT
                               !.head = aItemA,
                               !.args = [other |-> aItemB, kindMask |-> aKindMask,
                                         forceClearance |-> aForceClearance],
                               !.flag = checkCollidingPair(aItemA, aItemB, aKindMask,
                                                           aForceClearance)]]
    /\ mark' = NoMark
    /\ steps' = steps + 1
    /\ UNCHANGED <<rev, nextRev, m_revision, m_index, m_joints, pc, changes>>

\* clients that ask for collisions
MaxQuerySteps == 3
QueryNext ==
    \/ \E it \in LineItems, ar \in BOOLEAN : Add(it, ar)
    \/ \E it \in LineItems : Remove(it)
    \/ \E h \in {ItemHead(i) : i \in LineItems}
                 \cup {LineHead(k, 2, FALSE) : k \in Lines},
          m \in {{"SEGMENT"}, {"VIA", "SOLID"}, {"SEGMENT", "VIA", "SOLID"}},
          l \in 0..2, d \in BOOLEAN, f \in {-1, 0, 6}, ru \in BOOLEAN :
             QueryColliding(h, m, l, d, f, ru)
    \/ \E h \in {ItemHead(i) : i \in LineItems}
                 \cup {LineHead(k, n, v) : k \in Lines, n \in 1..2, v \in BOOLEAN},
          m \in {{"SEGMENT"}, {"VIA", "SOLID"}, {"SEGMENT", "VIA", "SOLID"}} :
             CheckColliding(h, m)
    \/ \E h \in {LineHead(k, n, v) : k \in Lines, n \in 1..2, v \in BOOLEAN},
          m \in {{"SEGMENT"}, {"VIA", "SOLID"}, {"SEGMENT", "VIA", "SOLID"}},
          rs \in {[given |-> FALSE, items |-> {}], [given |-> TRUE, items |-> {}]}
                    \cup {[given |-> TRUE, items |-> {it}] : it \in LineItems} :
             NearestObstacle(h, m, rs)
    \/ \E a \in {ItemHead(i) : i \in LineItems} \cup {LineHead(k, 2, FALSE) : k \in Lines},
          b \in {ItemHead(i) : i \in m_index} \cup {LineHead(1, 1, FALSE)},
          m \in {{"SEGMENT"}, {"VIA", "SOLID"}}, f \in {-1, 0, 6} :
             CheckCollidingPair(a, b, m, f)
SpecQueries == Init /\ [][steps < MaxQuerySteps /\ QueryNext]_vars

\* the clearance a query of aItem tests a candidate at
ComputedClearance(aItem, aCandidate, aForceClearance) ==
    IF aForceClearance >= 0 THEN aForceClearance
    ELSE GetClearance(aCandidate, aItem)
           + (IF HeadDesc(aItem).kind = "LINE" THEN LineWidth \div 2 ELSE 0)
\* the indexed items of the kind mask that collide with aItem
Colliding(aItem, aKindMask, aDifferentNetsOnly, aForceClearance) ==
    {c \in m_index :
        /\ Kind(c) \in aKindMask
        /\ Collide(ItemDesc(c), HeadDesc(aItem),
                   ComputedClearance(aItem, c, aForceClearance), aDifferentNetsOnly)}

\* C21: every obstacle QueryColliding appends, and every obstacle
\* CheckColliding( item, kindMask ) returns, names an indexed item of the kind
\* mask that collides with the item queried with at the computed clearance
\* (so an indexed item that is only near and does not collide is never
\* reported), and its head is the item the query was made with.
C21_CollisionSoundness ==
    /\ lastOp.op = "QueryColliding" =>
          \A k \in (lastOp.note.args.pre + 1)..Len(lastOp.note.tab) :
             /\ lastOp.note.tab[k].m_item
                   \in Colliding(lastOp.note.head, lastOp.note.args.kindMask,
                                 lastOp.note.args.differentNetsOnly,
                                 lastOp.note.args.forceClearance)
             /\ lastOp.note.tab[k].m_head = lastOp.note.head
    /\ lastOp.op = "CheckColliding" /\ lastOp.note.hit # <<>> =>
          /\ lastOp.note.hit[1].m_item
                \in Colliding(lastOp.note.hit[1].m_head, lastOp.note.args.kindMask, TRUE, -1)
          /\ \E i \in 1..Len(Parts(lastOp.note.head)) :
                lastOp.note.hit[1].m_head = Parts(lastOp.note.head)[i]

\* a query that reported one item and left out an indexed item of the kind
\* mask that is near and does not collide
C21_Witness ==
    /\ lastOp.op = "QueryColliding"
    /\ Len(lastOp.note.tab) > lastOp.note.args.pre
    /\ \E c \in m_index :
          /\ Kind(c) \in lastOp.note.args.kindMask
          /\ Gap(ItemDesc(c), HeadDesc(lastOp.note.head)) <= m_maxClearance
          /\ c \notin Colliding(lastOp.note.head, lastOp.note.args.kindMask,
                                lastOp.note.args.differentNetsOnly,
                                lastOp.note.args.forceClearance)
          /\ \A k \in 1..Len(lastOp.note.tab) : lastOp.note.tab[k].m_item # c

\* C22: one QueryColliding call with a limit L > 0 appends min( L, number of
\* colliding indexed items of the kind mask ) obstacles, so at most L; with
\* L <= 0 it appends every colliding indexed item of the kind mask.
C22_LimitStopsTraversal ==
    lastOp.op = "QueryColliding" =>
       LET a == lastOp.note.args
           colliding == Colliding(lastOp.note.head, a.kindMask, a.differentNetsOnly,
                                  a.forceClearance)
           appended == {lastOp.note.tab[k].m_item : k \in (a.pre + 1)..Len(lastOp.note.tab)}
       IN  /\ Len(lastOp.note.tab) - a.pre
                = (IF a.limit > 0 THEN Min(a.limit, Cardinality(colliding))
                   ELSE Cardinality(colliding))
           /\ Cardinality(appended) = Len(lastOp.note.tab) - a.pre
           /\ a.limit <= 0 => appended = colliding

\* a query with a limit that more items collide with than the limit allows
C22_Witness ==
    /\ lastOp.op = "QueryColliding"
    /\ lastOp.note.args.limit > 0
    /\ Cardinality(Colliding(lastOp.note.head, lastOp.note.args.kindMask,
                             lastOp.note.args.differentNetsOnly,
                             lastOp.note.args.forceClearance)) > lastOp.note.args.limit

\* C23: NearestObstacle returns nothing when no sub-segment of the line, nor
\* the via it ends with, has a colliding indexed item of the kind mask; when
\* there are such items and the hull of none of them crosses the line, it
\* returns the first one found, with no hull and no first crossing.
C23_NearestObstacleNoCrossing ==
    lastOp.op = "NearestObstacle" =>
       LET h == lastOp.note.head
           found(i) == Colliding(Parts(h)[i], lastOp.note.args.kindMask, TRUE, -1)
           candidates == UNION {found(i) : i \in 1..Len(Parts(h))}
           first == CHOOSE i \in 1..Len(Parts(h)) :
                       found(i) # {} /\ \A j \in 1..(i - 1) : found(j) = {}
       IN  /\ candidates = {} => lastOp.note.hit = <<>>
           /\ /\ candidates # {}
              /\ \A c \in candidates :
                    Intersections(c, h, GetClearance(c, h), GetClearance(c, h)) = <<>>
              => /\ lastOp.note.hit # <<>>
                 /\ lastOp.note.hit[1].m_item = lastOp.note.tab[1].m_item
                 /\ lastOp.note.hit[1].m_item \in found(first)
                 /\ lastOp.note.hit[1].m_hull = NULL
                 /\ lastOp.note.hit[1].m_distFirst = INT_MAX

\* a line with two colliding items whose hulls do not cross it
C23_Witness ==
    /\ lastOp.op = "NearestObstacle"
    /\ lastOp.note.hit # <<>>
    /\ Len(lastOp.note.tab) > 1
    /\ lastOp.note.tab[1].m_item # lastOp.note.tab[2].m_item
    /\ \A k \in 1..Len(lastOp.note.tab) :
          Intersections(lastOp.note.tab[k].m_item, lastOp.note.head, 1, 1) = <<>>

\* the segments joined to seg through the joints at their ends
RECURSIVE Chained(_)
Chained(S) ==
    LET T == S \cup UNION {JointAt(c, x).links : c \in {ItemDesc(y).a : y \in S}
                                                        \cup {ItemDesc(y).b : y \in S},
                                                  x \in S}
    IN  IF T = S THEN S ELSE Chained(T)
\* seg lies on a closed loop of segments in which every joint is a line corner
OnClosedLoop(seg) ==
    \A x \in Chained({seg}) :
        /\ Kind(x) = "SEGMENT"
        /\ \A c \in {ItemDesc(x).a, ItemDesc(x).b} :
              /\ JointAt(c, x) # NoJoint
              /\ x \in JointAt(c, x).links
              /\ IsLineCorner(JointAt(c, x))

\* C31 as stated: AssembleLine of a seed on a closed loop of segments in which
\* every joint is a line corner returns; its backward walk ends by reaching
\* the seed's first end again, and the forward walk is not made.
C31_LoopGuardHit_AsStated ==
    (lastOp.op = "AssembleLine" /\ OnClosedLoop(lastOp.note.x))
       => /\ pc = "ok"
          /\ lastOp.note.args.guardHit
          /\ ~lastOp.note.args.forward

\* C31: the same, for a walk that does not stop at locked joints or a loop
\* none of whose joints is locked.
C31_LoopGuardHit ==
    (/\ lastOp.op = "AssembleLine"
     /\ OnClosedLoop(lastOp.note.x)
     /\ lastOp.note.flag =>
           \A x \in Chained({lastOp.note.x}) :
              \A c \in {ItemDesc(x).a, ItemDesc(x).b} : ~JointAt(c, x).locked)
       => /\ pc = "ok"
          /\ lastOp.note.args.guardHit
          /\ ~lastOp.note.args.forward
          /\ lastOp.note.corners[1] = ItemDesc(lastOp.note.x).a
          /\ lastOp.note.corners[Len(lastOp.note.corners)] = ItemDesc(lastOp.note.x).a

\* a line assembled from a seed on a closed loop
C31_Witness ==
    /\ lastOp.op = "AssembleLine"
    /\ pc = "ok"
    /\ OnClosedLoop(lastOp.note.x)
    /\ lastOp.note.args.guardHit
    /\ Len(lastOp.note.corners) >= 3

\* C38: in every line AssembleLine returns no segment is linked twice, the
\* linked segments are one fewer than the corners, and the i-th linked
\* segment joins corners i and i + 1.
C38_LinksMatchChain ==
    (lastOp.op = "AssembleLine" /\ pc = "ok")
       => LET cs == lastOp.note.corners
              ls == lastOp.note.links
          IN  /\ Len(ls) = Len(cs) - 1
              /\ \A i \in 1..Len(ls), j \in 1..Len(ls) : ls[i] = ls[j] => i = j
              /\ \A i \in 1..Min(Len(ls), Len(cs) - 1) :
                    {cs[i], cs[i + 1]} = {ItemDesc(ls[i]).a, ItemDesc(ls[i]).b}

\* C37: when NearestObstacle is given a restricted set, it returns nothing or
\* an obstacle whose item is in that set.
C37_RestrictedSetRespected ==
    (/\ lastOp.op = "NearestObstacle"
     /\ lastOp.note.args.restricted.given
     /\ lastOp.note.hit # <<>>)
       => lastOp.note.hit[1].m_item \in lastOp.note.args.restricted.items

\* C33: when the hull of an obstacle NearestObstacle looks at crosses the
\* line, the item returned is that of the first obstacle, in the order of the
\* list, with a crossing of the least distance along the line; the first
\* point and distance returned are that crossing, and the last point and
\* distance returned are the crossing of the greatest distance of the hull of
\* the item returned.
C33_FirstAndLastHit ==
    lastOp.op = "NearestObstacle" =>
       LET h == lastOp.note.head
           tab == lastOp.note.tab
           rs == lastOp.note.args.restricted
           looked == {k \in 1..Len(tab) : rs.given => tab[k].m_item \in rs.items}
           X(k) == Intersections(tab[k].m_item, h, GetClearance(tab[k].m_item, h),
                                 GetClearance(tab[k].m_item, h))
           least(k, i) == \A k2 \in looked : \A i2 \in 1..Len(X(k2)) :
                              X(k)[i].dist <= X(k2)[i2].dist
           first(k, i) == /\ least(k, i)
                          /\ \A k2 \in looked : \A i2 \in 1..Len(X(k2)) :
                                least(k2, i2) => k < k2 \/ (k = k2 /\ i <= i2)
           last(k, i) == /\ \A i2 \in 1..Len(X(k)) : X(k)[i2].dist <= X(k)[i].dist
                         /\ \A i2 \in 1..(i - 1) : X(k)[i2].dist < X(k)[i].dist
       IN  (\E k \in looked : X(k) # <<>>) =>
              /\ lastOp.note.hit # <<>>
              /\ \E k \in looked : \E i \in 1..Len(X(k)) : \E j \in 1..Len(X(k)) :
                    /\ first(k, i)
                    /\ last(k, j)
                    /\ lastOp.note.hit[1].m_item = tab[k].m_item
                    /\ lastOp.note.hit[1].m_distFirst = X(k)[i].dist
                    /\ lastOp.note.hit[1].m_ipFirst = X(k)[i].p
                    /\ lastOp.note.hit[1].m_distLast = X(k)[j].dist
                    /\ lastOp.note.hit[1].m_ipLast = X(k)[j].p

\* the clearance of a test of two items: the forced clearance when there is
\* one, else the rule clearance, widened by half the width of each LINE
WidenedClearance(aItemA, aItemB, aForceClearance) ==
    (IF aForceClearance >= 0 THEN aForceClearance ELSE GetClearance(aItemA, aItemB))
       + (IF HeadDesc(aItemA).kind = "LINE" THEN LineWidth \div 2 ELSE 0)
       + (IF HeadDesc(aItemB).kind = "LINE" THEN LineWidth \div 2 ELSE 0)

\* C32: QueryColliding without a limit reports the indexed items of the kind
\* mask that collide with the item at the base clearance (the forced one when
\* it is >= 0, else the rule clearance) widened by half the width of each LINE
\* of the pair, forced or not; CheckColliding( a, b, kindMask, forceClearance )
\* is Collide at that clearance.
C32_EffectiveClearance ==
    /\ (lastOp.op = "QueryColliding" /\ lastOp.note.args.limit <= 0) =>
          {lastOp.note.tab[k].m_item : k \in (lastOp.note.args.pre + 1)..Len(lastOp.note.tab)}
             = {c \in m_index :
                   /\ Kind(c) \in lastOp.note.args.kindMask
                   /\ Collide(ItemDesc(c), HeadDesc(lastOp.note.head),
                              WidenedClearance(lastOp.note.head, ItemHead(c),
                                               lastOp.note.args.forceClearance),
                              lastOp.note.args.differentNetsOnly)}
    /\ lastOp.op = "CheckCollidingPair" =>
          lastOp.note.flag
             = Collide(HeadDesc(lastOp.note.head), HeadDesc(lastOp.note.args.other),
                       WidenedClearance(lastOp.note.head, lastOp.note.args.other,
                                        lastOp.note.args.forceClearance), TRUE)

C35_NoEmptyJoint ==
    pc = "ok" => \A j \in m_joints : j.links # {}

\* the marker of it has a bit of aMarker set
MarkedBy(it, aMarker) ==
    \E bit \in {1, 2} : (Marker(it) \div bit) % 2 = 1 /\ (aMarker \div bit) % 2 = 1

\* C36: RemoveByMarker( m ) removes exactly the indexed items whose marker has
\* a bit of m set: afterwards FindByMarker( m ) finds nothing, every other item
\* is still indexed, and each removed item is recorded in the current
\* revision: taken out of its added list when that held it, else appended to
\* its removed list.
C36_RemoveByMarker ==
    [][(Called("RemoveByMarker") /\ pc' = "ok") =>
          LET m == lastOp'.note.x
              gone == {it \in m_index : MarkedBy(it, m)}
              was == rev[m_revision]
              now == rev'[m_revision]
          IN  /\ m_revision' = m_revision
              /\ m_index' = m_index \ gone
              /\ FindByMarker(m_index', m) = {}
              /\ \A it \in Items :
                    /\ (it \in gone /\ Contains(was.added, it)) =>
                          /\ Count(now.added, it) = Count(was.added, it) - 1
                          /\ Count(now.removed, it) = Count(was.removed, it)
                    /\ (it \in gone /\ ~Contains(was.added, it)) =>
                          /\ Count(now.removed, it) = Count(was.removed, it) + 1
                          /\ Count(now.added, it) = 0
                    /\ it \notin gone =>
                          /\ Count(now.added, it) = Count(was.added, it)
                          /\ Count(now.removed, it) = Count(was.removed, it)
              /\ \A r \in Revs \ {m_revision} : rev'[r] = rev[r]]_vars

C36_Witness ==
    /\ pc = "ok"
    /\ lastOp.op = "RemoveByMarker"
    /\ lastOp.note.x = 3
    /\ lastOp.note.cancelled # {}
    /\ \E it \in SeqToSet(lastOp.note.links) :
          it \notin lastOp.note.cancelled /\ Contains(rev[m_revision].removed, it)
    /\ m_index # {}

MaxUniqueSteps == 9
UniqueItems == {1, 5}
UniqueNext ==
    \/ \E it \in UniqueItems : Add(it, FALSE)
    \/ AddLine(2, FALSE)
    \/ \E it \in UniqueItems : Remove(it)
    \/ \E old \in UniqueItems, new \in UniqueItems : Replace(old, new)
    \/ BranchMove
    \/ NodeSquash
    \/ NodeRevert
    \/ \E t \in Revs : CheckoutRevision(t)
    \/ UseAfterFree
SpecUnique == Init /\ [][steps < MaxUniqueSteps /\ UniqueNext]_vars

\* C40: when no Add allows redundant segments, the index never holds two
\* distinct segments with the same unordered pair of ends, the same start
\* layer and the same net.
C40_NoTwinSegments ==
    pc = "ok" => \A x \in m_index : Twins(x, m_index) \subseteq {x}

====
